---- MODULE Spec2Model ----
(***************************************************************************)
(* Model of the audx real-time denoiser (src/src/audx/denoiser.c).         *)
(*                                                                         *)
(* One driver thread calls denoiser_create, denoiser_process and           *)
(* denoiser_destroy; every channel has a worker thread running             *)
(* channel_worker_run.  Each pthread call is one step of the thread that   *)
(* makes it; code executed between two pthread calls of one thread is      *)
(* local to that thread or runs under the worker's mutex and is folded     *)
(* into the step that ends it.  The inference call of a worker is a step   *)
(* of its own because it runs with the mutex released.                     *)
(*                                                                         *)
(* float values are represented exactly as integers counting 1/FloatUnit.  *)
(*                                                                         *)
(* Spec is a streaming caller: create, frames, one destroy.  LifecycleSpec *)
(* is any caller of create and destroy, for every configuration, with      *)
(* destroy after a failed create and repeated destroy.  heap records what  *)
(* denoiser_create acquired and what has been released since.              *)
(*                                                                         *)
(* build is the instruction set the library was compiled for: the sample   *)
(* converters have an 8-wide loop on x86 and ARM and a scalar one          *)
(* elsewhere.  ConvSpec applies the converters to buffers of every length  *)
(* up to MaxCount, StatsSpec applies get_denoiser_stats to the contexts    *)
(* that up to MaxStatFrames frames leave behind, and PipelineSpec is a     *)
(* caller of audx_process_frame (src/src/audx/audx_realtime.c) or of       *)
(* audx_create, audx_process and audx_destroy (src/src/audx.c), in which   *)
(* the denoiser and the resamplers are collaborators with the results      *)
(* their code can return.                                                  *)
(***************************************************************************)
EXTENDS Integers, Sequences, FiniteSets, TLC

\* ------------------------------------------------------------------ bounds
MaxCalls == 2          \* denoiser_process calls made by the driver
FrameLen == 2          \* samples per channel of a modelled frame
MaxDestroys == 2       \* denoiser_destroy calls made on one context
MaxCount == 17         \* samples passed to one converter call
MaxStatFrames == 3     \* frames accumulated when the statistics are read
MaxFileFrames == 3     \* frames in the input file of audx_process_frame

\* ----------------------------------------------------------- program data
FRAME_SIZE == 480
PCM_SCALE_FLOAT_MAX == 32767
PCM_SCALE_FLOAT_MIN == -32768
FloatUnit == 4                      \* float v is the integer v * FloatUnit
FloatOne == FloatUnit               \* 1.0f
FloatHalf == FloatUnit \div 2       \* 0.5f

Chan == {0, 1}
Idx == 0 .. (FrameLen - 1)
StereoIdx == 0 .. (2 * FrameLen - 1)

Scores == {0, FloatOne}                      \* scores the engine may return
ThresholdCfgs == {0, FloatHalf}               \* config->vad_threshold (unset, 0.5f)
ChannelCfgs == {0, 1, 2, 3}                  \* config->num_channels
Elapsed == {1}                               \* frame_time_ms, in clock ticks

\* struct DenoiserConfig as passed to denoiser_create; present is FALSE for a
\* NULL pointer.  model: no path or the embedded preset, a path that loads,
\* a path that rnnoise_model_from_filename rejects.
ModelCfgs == {"embedded", "custom", "unloadable"}
ChannelRange == {-1, 0, 1, 2, 3}
ThresholdRange ==
  {-FloatHalf, 0, 1, FloatHalf, FloatOne, FloatOne + FloatHalf}

\* stats_enabled is the field audx_process_frame (audx_realtime.c line 100)
\* and the unit tests set in the config; denoiser_create and
\* denoiser_process never read it.
NoConfig ==
  [present |-> FALSE, num_channels |-> 0, vad_threshold |-> 0,
   enable_vad_output |-> FALSE, model |-> "embedded",
   stats_enabled |-> FALSE]

Configs ==
  {NoConfig} \cup
  [present : {TRUE}, num_channels : ChannelRange, vad_threshold : ThresholdRange,
   enable_vad_output : BOOLEAN, model : ModelCfgs, stats_enabled : {FALSE}]

StreamConfigs ==
  [present : {TRUE}, num_channels : ChannelCfgs, vad_threshold : ThresholdCfgs,
   enable_vad_output : BOOLEAN, model : {"embedded"},
   stats_enabled : {FALSE}]

\* the allocation of denoiser_create that fails, if any: one of the three
\* arrays (lines 311-331) or one step of a channel's initialisation
\* (lines 336-402), in the order of the code
ArrayFaults == {"none", "denoisers", "processing_buffers", "workers"}
ChannelSteps ==
  <<"state", "processing_buffer", "input_buffer", "output_buffer",
    "mutex", "cond", "work_done", "thread">>
ChannelFaults == {"none"} \cup {ChannelSteps[k] : k \in 1 .. Len(ChannelSteps)}
FailurePoints == (ArrayFaults \cup ChannelFaults) \ {"none"}

\* The caller streams audio: its n-th call passes frame n of the stream.
\* Every frame holds a different value at every position; odd frames are
\* near the top of the int16 range, even frames are small negative values.
Sample(n, j) == IF n % 2 = 0 THEN -(j + 1 + n) ELSE 32767 - j - n

\* int16 samples and float values handed to the converters: the limits of
\* int16, values beyond them, and fractions on both sides of zero
Int16Samples == <<-32768, -32767, -256, -1, 0, 1, 255, 32766, 32767>>

FloatSamples ==
  <<-40000 * FloatUnit, PCM_SCALE_FLOAT_MIN * FloatUnit - 1,
    PCM_SCALE_FLOAT_MIN * FloatUnit, PCM_SCALE_FLOAT_MIN * FloatUnit + 2,
    -10, -6, -3, -2, -1, 0, 1, 2, 3, 6, 10,
    PCM_SCALE_FLOAT_MAX * FloatUnit - 6, PCM_SCALE_FLOAT_MAX * FloatUnit - 1,
    PCM_SCALE_FLOAT_MAX * FloatUnit, PCM_SCALE_FLOAT_MAX * FloatUnit + 1,
    40000 * FloatUnit>>

\* a buffer of count values: the samples in order, starting at any of them
Shifts == 0 .. (Len(FloatSamples) - 1)
Buffer(samples, count, shift) ==
  [k \in 0 .. (count - 1) |-> samples[((k + shift) % Len(samples)) + 1]]

ZeroFrame == [k \in Idx |-> 0]
ZeroPcm == [k \in StereoIdx |-> 0]

\* ------------------------------------------------------------- conversions
\* Builds of denoiser.c (lines 13-20): "simd" compiles the 8-wide converters
\* (SSE on x86, lines 55-109; NEON on ARM, lines 113-168), "scalar" compiles
\* the loops of lines 172-188.
Builds == {"simd", "scalar"}
BatchWidth == 8

\* samples converted by the 8-wide loop: for (; i <= count - 8; i += 8)
Batched(count) == (count \div BatchWidth) * BatchWidth

\* C float -> integer conversion truncates toward zero
TruncDiv(a, b) == IF a >= 0 THEN a \div b ELSE -((-a) \div b)

\* _mm_cvtps_epi32 under the default rounding mode and vcvtnq_s32_f32: the
\* nearest integer, a tie goes to the even one
RoundNearestEven(v) ==
  LET q == v \div FloatUnit
      r == v % FloatUnit
  IN IF 2 * r < FloatUnit THEN q
     ELSE IF 2 * r > FloatUnit THEN q + 1
     ELSE IF q % 2 = 0 THEN q ELSE q + 1

\* (float)x for an int16 x
ToFloat(x) == x * FloatUnit

\* faulty variant: only the upper limit is applied
Clamp_upper(v) ==
  IF v > PCM_SCALE_FLOAT_MAX * FloatUnit
  THEN PCM_SCALE_FLOAT_MAX * FloatUnit ELSE v

\* val > MAX -> MAX, val < MIN -> MIN; min_ps(max_ps(v, min_val), max_val)
Clamp(v) ==
  LET hi == IF v > PCM_SCALE_FLOAT_MAX * FloatUnit
               THEN PCM_SCALE_FLOAT_MAX * FloatUnit ELSE v
  IN IF hi < PCM_SCALE_FLOAT_MIN * FloatUnit
        THEN PCM_SCALE_FLOAT_MIN * FloatUnit ELSE hi

\* clamp to [PCM_SCALE_FLOAT_MIN, PCM_SCALE_FLOAT_MAX], then (int16_t)val
ClampToInt16(v) == TruncDiv(Clamp(v), FloatUnit)

\* one lane of the 8-wide loop: clamp, convert to int32, pack to int16
ClampRoundToInt16(v) == RoundNearestEven(Clamp(v))

\* faulty variant: samples are scaled to [-1, 1)
pcm_int16_to_float_normalised(b, input, count) ==
  [k \in DOMAIN input |-> TruncDiv(ToFloat(input[k]), 32768)]

\* input holds the modelled samples of a buffer of count samples.  Sign
\* extension to 32 bits and conversion to float are exact, as (float)x is.
pcm_int16_to_float(b, input, count) ==
  [k \in DOMAIN input |-> ToFloat(input[k])]

\* sample k goes through the 8-wide loop when the build has one and k is
\* below Batched(count), otherwise through the scalar loop
pcm_float_to_int16(b, input, count) ==
  [k \in DOMAIN input |->
     IF b = "simd" /\ k < Batched(count)
     THEN ClampRoundToInt16(input[k])
     ELSE ClampToInt16(input[k])]

\* left[i] = input[2i], right[i] = input[2i+1]
deinterleave_stereo(input) ==
  [c \in Chan |-> [k \in Idx |-> ToFloat(input[2 * k + c])]]

\* faulty variant: left and right exchanged on output
interleave_stereo_swapped(bufs) ==
  [j \in 0 .. (2 * Cardinality(DOMAIN bufs[0]) - 1) |->
     ClampToInt16(bufs[1 - (j % 2)][j \div 2])]

\* output[2i] = clamp(left[i]), output[2i+1] = clamp(right[i])
interleave_stereo(bufs) ==
  [j \in 0 .. (2 * Cardinality(DOMAIN bufs[0]) - 1) |->
     ClampToInt16(bufs[j % 2][j \div 2])]

\* ------------------------------------------------------- inference engine
\* rnnoise_process_frame is external.  Its output is a function of the
\* engine state (the number of frames the state has seen) and of the input;
\* its return value is any score in [0,1].
EngineOut(st, in) == [k \in Idx |-> in[k] + (2 * st + 1) * FloatHalf]

\* --------------------------------------------------------------- variables
VARIABLES
  denoiser,            \* struct Denoiser: configuration and statistics
  processing_buffers,  \* denoiser->processing_buffers[c]
  engine,              \* denoiser->denoisers[c]: frames seen by the state
  workers,             \* denoiser->workers[c]
  wpc,                 \* position of worker thread c in channel_worker_run
  drv,                 \* the driver thread: position, locals, caller buffers
  hist,                \* history of what the caller and the engines observed
  heap,                \* what denoiser_create acquired: arrays, buffers, handles
  build,               \* which converters denoiser.c was compiled with
  conv,                \* a caller of the converters: its buffers and count
  stats_buffer,        \* static char stats_buffer[512] of get_denoiser_stats
  rt,                  \* audx_process_frame: position, locals, files
  audx                 \* struct AudxState of audx.c and what its caller saw

\* the denoiser context, its threads and its caller
context ==
  <<denoiser, processing_buffers, engine, workers, wpc, drv, hist, heap>>

\* state outside the denoiser context and its threads
outside == <<build, conv, stats_buffer, rt, audx>>

vars == <<context, outside>>

\* caller-owned DenoiserResult as passed to a call: uninitialised
GarbageResult ==
  [vad_probability |-> FloatOne, is_speech |-> TRUE, samples_processed |-> -1]

ZeroDenoiser ==
  [num_channels |-> 0, vad_threshold |-> 0, enable_vad_output |-> FALSE,
   frames_processed |-> 0, speech_frames |-> 0, total_vad_score |-> 0,
   min_vad_score |-> 0, max_vad_score |-> 0,
   total_processing_time |-> 0, last_frame_time |-> 0]

ZeroWorker ==
  [has_work |-> FALSE, stop |-> FALSE, mutex |-> "free",
   input_buffer |-> ZeroFrame, output_buffer |-> ZeroFrame, vad_result |-> 0]

NoRun == [call |-> 0, in |-> ZeroFrame, out |-> ZeroFrame, score |-> 0]

\* Every array, buffer, handle and pthread object of a context is "none"
\* (never acquired, the pointer is NULL), "live" or "released" (freed or
\* destroyed; the pointer still holds the old address).  The thread of worker
\* c is tracked by wpc[c].
NoHeap ==
  [model |-> "none", denoisers |-> "none", processing_buffers |-> "none",
   workers |-> "none",
   state |-> [c \in Chan |-> "none"],
   processing_buffer |-> [c \in Chan |-> "none"],
   input_buffer |-> [c \in Chan |-> "none"],
   output_buffer |-> [c \in Chan |-> "none"],
   mutex |-> [c \in Chan |-> "none"],
   cond |-> [c \in Chan |-> "none"],
   work_done |-> [c \in Chan |-> "none"]]

\* free / rnnoise_destroy / pthread_*_destroy of one object
Release(s) == IF s = "live" THEN "released" ELSE s

ThreadsInit(config) ==
  /\ processing_buffers = [c \in Chan |-> ZeroFrame]
  /\ engine = [c \in Chan |-> 0]
  /\ workers = [c \in Chan |-> ZeroWorker]
  /\ wpc = [c \in Chan |-> "nothread"]
  /\ drv = [pc |-> "nocontext", i |-> 0, total_vad |-> 0,
            input_pcm |-> ZeroPcm, output_pcm |-> ZeroPcm,
            res_ptr |-> FALSE, result |-> GarbageResult,
            ret |-> "NONE", calls |-> 0,
            num_workers |-> 0, num_denoisers |-> 0, num_buffers |-> 0,
            destroys |-> 0]
  /\ hist = [ok |-> 0, rejected |-> 0, run |-> [c \in Chan |-> NoRun],
             queued |-> [c \in Chan |-> 0], done |-> [c \in Chan |-> 0],
             scores |-> {}, okcall |-> 0, first |-> -1,
             config |-> config, cause |-> "none", threads |-> 0,
             misuse |-> {}]
  /\ heap = NoHeap

ContextInit == denoiser = ZeroDenoiser /\ ThreadsInit(NoConfig)

\* no converter call, no statistics call and no audx_process_frame call is
\* under way
NoConv ==
  [count |-> 0, pcm |-> <<>>, floats |-> <<>>, right |-> <<>>, ran |-> {},
   float_out |-> <<>>, pcm_out |-> <<>>, back |-> <<>>, stereo_out |-> <<>>]

\* the static buffer holds no text and no call has returned
NoStats == [buffer |-> <<>>, ret |-> "NONE"]

\* a resampler handle: NULL, or the instance a create call returned
NullResampler == [id |-> 0, from |-> 0, to |-> 0]

\* audx_process_frame has not been called: its locals as lines 67-72 set
\* them, nothing opened, nothing written
NoFrameCall ==
  [pc |-> "nocall", ret |-> "NONE", raw_rate |-> 0, input_rate |-> 0,
   needs_resampling |-> FALSE, stats_enabled |-> FALSE, on_progress |-> FALSE,
   frames_left |-> 0, tail |-> 0, short |-> FALSE,
   frame_samples |-> 0, file_samples |-> 0, read |-> 0, padded |-> 0,
   samples_read |-> 0, samples_written |-> 0,
   frame_count |-> 0, written |-> 0, progress |-> 0,
   input_file |-> "none", output_file |-> "none", denoiser |-> "none",
   input_buffer |-> "none", output_buffer |-> "none",
   resampled_input |-> "none", resampled_output |-> "none",
   upsampler |-> NullResampler, downsampler |-> NullResampler,
   created |-> {}, destroyed |-> {},
   log |-> <<>>, up_used |-> {}, down_used |-> {}, failed |-> "none",
   null_call |-> FALSE, cause |-> "none",
   ret_stats |-> [header |-> FALSE, stats |-> FALSE]]

\* audx_create has not been called
NoAudx ==
  [pc |-> "nostate", in_rate |-> 0, in_len |-> 0, need_resample |-> FALSE,
   downsampler_buf_len |-> 0, entry |-> "none", denoise_out |-> "none",
   denoise_written |-> 0, tmp_out_len |-> 0, tmp_out_used |-> 0,
   upsampler |-> NullResampler, downsampler |-> NullResampler,
   res |-> [arena |-> "none", state |-> "none", upsampler |-> "none",
            upsampler_buf |-> "none", downsampler |-> "none",
            downsampler_buf |-> "none", denoiser |-> "none"],
   created |-> {}, log |-> <<>>, ret |-> "NONE",
   up_used |-> {}, down_used |-> {}]

Init ==
  /\ ContextInit
  /\ build \in Builds
  /\ conv = NoConv
  /\ stats_buffer = NoStats
  /\ rt = NoFrameCall
  /\ audx = NoAudx

\* --------------------------------------------------------- condition waits
\* pthread_cond_signal(&w->cond): wakes the worker if it is blocked
SignalCond(pcs, c) ==
  IF pcs[c] = "waiting" THEN [pcs EXCEPT ![c] = "reacquire"] ELSE pcs

\* faulty variant: the completion signal is not sent
SignalWorkDone_lost(d, c) == d

\* pthread_cond_signal(&w->work_done): wakes the driver if it is blocked on
\* worker c.  A signal needs no matching waiter.
SignalWorkDone(d, c) ==
  IF d.pc = "join_wait" /\ d.i = c THEN [d EXCEPT !.pc = "join_reacquire"] ELSE d

\* ---------------------------------------------------------- denoiser_create
\* faulty variant: the configured count is taken as it is
CreateChannels_asis(cfg) == cfg

\* line 278: channel count, 1 when the configured count is not positive
CreateChannels(cfg) == IF cfg > 0 THEN cfg ELSE 1

\* faulty variant: the threshold is validated against [0,1]
CreateThreshold_range(cfg) ==
  IF cfg >= 0 /\ cfg <= FloatOne THEN cfg ELSE FloatHalf

\* lines 287-288: threshold, 0.5f when the configured one is not positive
CreateThreshold(cfg) == IF cfg > 0 THEN cfg ELSE FloatHalf

\* lines 240-264 of denoiser_cleanup_partial: engine states and processing
\* buffers below the given counts, the model, the three arrays; each only
\* when its pointer is not NULL
CleanupRelease(h, num_denoisers, num_buffers) ==
  [h EXCEPT
     !.state = [c \in Chan |->
                  IF c < num_denoisers /\ h.denoisers # "none"
                  THEN Release(@[c]) ELSE @[c]],
     !.processing_buffer = [c \in Chan |->
                  IF c < num_buffers /\ h.processing_buffers # "none"
                  THEN Release(@[c]) ELSE @[c]],
     !.model = Release(@),
     !.processing_buffers = Release(@),
     !.denoisers = Release(@),
     !.workers = Release(@)]

\* lines 311-331: the arrays allocated before the allocation that fails
AllocArrays(h, fault) ==
  [h EXCEPT
     !.denoisers = IF fault = "denoisers" THEN @ ELSE "live",
     !.processing_buffers =
        IF fault \in {"denoisers", "processing_buffers"} THEN @ ELSE "live",
     !.workers = IF fault = "none" THEN "live" ELSE @]

\* faulty variant: a model that cannot be loaded is reported as an invalid argument
ModelFailureCode_invalid == "ERROR_INVALID"

\* line 306: return REALTIME_DENOISER_ERROR_MODEL
ModelFailureCode == "ERROR_MODEL"

\* lines 270-331: what denoiser_create has done when it returns early or
\* enters the channel loop: pc, return code, context, acquired objects
CreateEntry(d0, config, fault) ==
  LET n == CreateChannels(config.num_channels)
      d == [ZeroDenoiser EXCEPT
              !.num_channels = n,
              !.vad_threshold = CreateThreshold(config.vad_threshold),
              !.enable_vad_output = config.enable_vad_output,
              !.min_vad_score = FloatOne,
              !.max_vad_score = 0]
      h0 == [NoHeap EXCEPT
               !.model = IF config.model = "custom" THEN "live" ELSE "none"]
      h1 == AllocArrays(h0, fault)
  IN IF ~config.present
     THEN [pc |-> "failed", ret |-> "ERROR_INVALID", cause |-> "null_config",
           denoiser |-> d0, heap |-> NoHeap]
     ELSE IF n < 1 \/ n > 2
     THEN [pc |-> "failed", ret |-> "ERROR_INVALID", cause |-> "channels",
           denoiser |-> [ZeroDenoiser EXCEPT !.num_channels = n],
           heap |-> NoHeap]
     ELSE IF config.model = "unloadable"
     THEN [pc |-> "failed", ret |-> ModelFailureCode, cause |-> "model",
           denoiser |-> d, heap |-> NoHeap]
     ELSE IF fault # "none"
     THEN [pc |-> "failed", ret |-> "ERROR_MEMORY", cause |-> fault,
           denoiser |-> d, heap |-> CleanupRelease(h1, 0, 0)]
     ELSE [pc |-> "create_channel", ret |-> "NONE", cause |-> "none",
           denoiser |-> d, heap |-> h1]

\* denoiser_create on one of the given configurations; the history keeps the
\* configuration when told to
CreateWith(configs, keep) ==
  /\ drv.pc = "nocontext"
  /\ \E config \in configs, fault \in ArrayFaults :
       LET r == CreateEntry(denoiser, config, fault) IN
         /\ denoiser' = r.denoiser
         /\ heap' = r.heap
         /\ drv' = [drv EXCEPT !.pc = r.pc, !.ret = r.ret, !.i = 0]
         /\ hist' = [hist EXCEPT !.config = IF keep THEN config ELSE @,
                                  !.cause = r.cause]
  /\ UNCHANGED <<processing_buffers, engine, workers, wpc, outside>>

\* denoiser_create on a configuration of a streaming caller
Create == CreateWith(StreamConfigs, FALSE)

\* denoiser_create on any configuration
CreateAny == CreateWith(Configs, TRUE)

StepIndex(r) == CHOOSE k \in 1 .. Len(ChannelSteps) : ChannelSteps[k] = r

\* object r of a channel is acquired before the step that fails
Before(r, fault) == fault = "none" \/ StepIndex(r) < StepIndex(fault)

\* lines 336-393: the objects of channel c acquired up to the failing step
Acquire(h, c, fault) ==
  [h EXCEPT
     !.state[c] = IF Before("state", fault) THEN "live" ELSE @,
     !.processing_buffer[c] =
        IF Before("processing_buffer", fault) THEN "live" ELSE @,
     !.input_buffer[c] = IF Before("input_buffer", fault) THEN "live" ELSE @,
     !.output_buffer[c] = IF Before("output_buffer", fault) THEN "live" ELSE @,
     !.mutex[c] = IF Before("mutex", fault) THEN "live" ELSE @,
     !.cond[c] = IF Before("cond", fault) THEN "live" ELSE @,
     !.work_done[c] = IF Before("work_done", fault) THEN "live" ELSE @]

\* the return code of each failing step: ERROR_MEMORY at lines 340, 348,
\* 363, 370 and ERROR_INVALID at lines 378, 385, 392, 401
ChannelFaultCode(fault) ==
  IF fault \in {"state", "processing_buffer", "input_buffer", "output_buffer"}
  THEN "ERROR_MEMORY" ELSE "ERROR_INVALID"

\* the arguments of denoiser_cleanup_partial at lines 339, 347, 362-400
CleanupWorkers(c, fault) == c

CleanupDenoisers(c, fault) == IF fault = "state" THEN c ELSE c + 1

CleanupBuffers(c, fault) ==
  IF fault \in {"state", "processing_buffer"} THEN c ELSE c + 1

\* lines 230-236: the pthread objects and staging buffers of one worker
CleanupWorker(h, c) ==
  [h EXCEPT !.mutex[c] = Release(@), !.cond[c] = Release(@),
            !.work_done[c] = Release(@),
            !.input_buffer[c] = Release(@), !.output_buffer[c] = Release(@)]

\* lines 334-403: one iteration of the channel loop, up to its failing step
CreateChannel ==
  /\ drv.pc = "create_channel"
  /\ \E fault \in ChannelFaults :
       LET c == drv.i IN
         /\ heap' = Acquire(heap, c, fault)
         /\ IF fault = "none"
            THEN /\ wpc' = [wpc EXCEPT ![c] = "lock"]
                 /\ hist' = [hist EXCEPT !.threads = @ + 1]
                 /\ drv' = IF c + 1 < denoiser.num_channels
                           THEN [drv EXCEPT !.i = c + 1]
                           ELSE [drv EXCEPT !.pc = "idle", !.i = 0,
                                            !.ret = "SUCCESS"]
            ELSE /\ wpc' = wpc
                 /\ hist' = [hist EXCEPT !.cause = fault]
                 /\ drv' = [drv EXCEPT
                              !.pc = IF CleanupWorkers(c, fault) > 0
                                     THEN "cleanup_lock" ELSE "cleanup_release",
                              !.i = 0,
                              !.num_workers = CleanupWorkers(c, fault),
                              !.num_denoisers = CleanupDenoisers(c, fault),
                              !.num_buffers = CleanupBuffers(c, fault),
                              !.ret = ChannelFaultCode(fault)]
  /\ workers' = [workers EXCEPT ![drv.i] = ZeroWorker]
  /\ UNCHANGED <<denoiser, processing_buffers, engine, outside>>

\* --------------------------------------------------- denoiser_cleanup_partial
\* lines 223-224: if (w->thread) pthread_mutex_lock(&w->mutex); every worker
\* below num_workers has a thread
CleanupLock ==
  /\ drv.pc = "cleanup_lock"
  /\ wpc[drv.i] # "nothread"
  /\ workers[drv.i].mutex = "free"
  /\ workers' = [workers EXCEPT ![drv.i].mutex = "driver"]
  /\ drv' = [drv EXCEPT !.pc = "cleanup_stop"]
  /\ UNCHANGED <<heap, denoiser, processing_buffers, engine, wpc, hist,
                 outside>>

\* lines 225-227: set stop, signal, unlock
CleanupStop ==
  /\ drv.pc = "cleanup_stop"
  /\ workers' = [workers EXCEPT ![drv.i].stop = TRUE, ![drv.i].mutex = "free"]
  /\ wpc' = SignalCond(wpc, drv.i)
  /\ drv' = [drv EXCEPT !.pc = "cleanup_join"]
  /\ UNCHANGED <<heap, denoiser, processing_buffers, engine, hist, outside>>

\* lines 228-236: pthread_join, destroy the pthread objects, free the buffers
CleanupJoin ==
  /\ drv.pc = "cleanup_join"
  /\ wpc[drv.i] = "exited"
  /\ wpc' = [wpc EXCEPT ![drv.i] = "joined"]
  /\ workers' = [workers EXCEPT ![drv.i].mutex = "destroyed"]
  /\ heap' = CleanupWorker(heap, drv.i)
  /\ drv' = IF drv.i + 1 < drv.num_workers
            THEN [drv EXCEPT !.pc = "cleanup_lock", !.i = @ + 1]
            ELSE [drv EXCEPT !.pc = "cleanup_release", !.i = @ + 1]
  /\ UNCHANGED <<denoiser, processing_buffers, engine, hist, outside>>

\* lines 240-265, then the return of denoiser_create
CleanupFree ==
  /\ drv.pc = "cleanup_release"
  /\ heap' = CleanupRelease(heap, drv.num_denoisers, drv.num_buffers)
  /\ drv' = [drv EXCEPT !.pc = "failed"]
  /\ UNCHANGED <<denoiser, processing_buffers, engine, workers, wpc, hist,
                 outside>>

\* ------------------------------------------------------ channel_worker_run
\* faulty variant: the wait loop does not look at stop
WorkerMustWait_ignores_stop(w) == ~w.has_work

\* line 27: while (!w->has_work && !w->stop)
WorkerMustWait(w) == ~w.has_work /\ ~w.stop

\* line 26 / line 44: pthread_mutex_lock
WLock(c) ==
  /\ wpc[c] = "lock"
  /\ workers[c].mutex = "free"
  /\ workers' = [workers EXCEPT ![c].mutex = "worker"]
  /\ wpc' = [wpc EXCEPT ![c] = "check"]
  /\ UNCHANGED <<heap, denoiser, processing_buffers, engine, drv, hist,
                 outside>>

\* line 28: pthread_cond_wait releases the mutex and blocks
WWait(c) ==
  /\ wpc[c] = "check"
  /\ WorkerMustWait(workers[c])
  /\ workers' = [workers EXCEPT ![c].mutex = "free"]
  /\ wpc' = [wpc EXCEPT ![c] = "waiting"]
  /\ UNCHANGED <<heap, denoiser, processing_buffers, engine, drv, hist,
                 outside>>

\* pthread_cond_wait may return without a signal
WSpurious(c) ==
  /\ wpc[c] = "waiting"
  /\ wpc' = [wpc EXCEPT ![c] = "reacquire"]
  /\ UNCHANGED <<heap, denoiser, processing_buffers, engine, workers, drv, hist,
                 outside>>

\* pthread_cond_wait re-acquires the mutex before it returns
WReacquire(c) ==
  /\ wpc[c] = "reacquire"
  /\ workers[c].mutex = "free"
  /\ workers' = [workers EXCEPT ![c].mutex = "worker"]
  /\ wpc' = [wpc EXCEPT ![c] = "check"]
  /\ UNCHANGED <<heap, denoiser, processing_buffers, engine, drv, hist,
                 outside>>

\* lines 30-33: stop requested
WStop(c) ==
  /\ wpc[c] = "check"
  /\ ~WorkerMustWait(workers[c])
  /\ workers[c].stop
  /\ workers' = [workers EXCEPT ![c].mutex = "free"]
  /\ wpc' = [wpc EXCEPT ![c] = "exited"]
  /\ UNCHANGED <<heap, denoiser, processing_buffers, engine, drv, hist,
                 outside>>

\* faulty variant: has_work is cleared when the job is taken, before inference
WCopy_clears_early(c) ==
  /\ wpc[c] = "check"
  /\ ~WorkerMustWait(workers[c])
  /\ ~workers[c].stop
  /\ workers' = [workers EXCEPT ![c].output_buffer = workers[c].input_buffer,
                                ![c].has_work = FALSE,
                                ![c].mutex = "free"]
  /\ wpc' = [wpc EXCEPT ![c] = "infer"]
  /\ UNCHANGED <<heap, denoiser, processing_buffers, engine, drv, hist,
                 outside>>

\* faulty variant: the mutex is kept over the inference call
WCopy_keeps_mutex(c) ==
  /\ wpc[c] = "check"
  /\ ~WorkerMustWait(workers[c])
  /\ ~workers[c].stop
  /\ workers' = [workers EXCEPT ![c].output_buffer = workers[c].input_buffer]
  /\ wpc' = [wpc EXCEPT ![c] = "infer"]
  /\ UNCHANGED <<heap, denoiser, processing_buffers, engine, drv, hist,
                 outside>>

\* lines 36-37: copy the staged input under the mutex, release the mutex
WCopy(c) ==
  /\ wpc[c] = "check"
  /\ ~WorkerMustWait(workers[c])
  /\ ~workers[c].stop
  /\ workers' = [workers EXCEPT ![c].output_buffer = workers[c].input_buffer,
                                ![c].mutex = "free"]
  /\ wpc' = [wpc EXCEPT ![c] = "infer"]
  /\ UNCHANGED <<heap, denoiser, processing_buffers, engine, drv, hist,
                 outside>>

\* lines 40-41: rnnoise_process_frame in place on output_buffer, no mutex
WInfer(c) ==
  /\ wpc[c] = "infer"
  /\ \E score \in Scores :
       LET in == workers[c].output_buffer
           out == EngineOut(engine[c], in)
       IN /\ workers' = [workers EXCEPT ![c].output_buffer = out,
                                        ![c].vad_result = score]
          /\ hist' = [hist EXCEPT !.run[c] = [call |-> drv.calls, in |-> in,
                                              out |-> out, score |-> score]]
  /\ engine' = [engine EXCEPT ![c] = @ + 1]
  /\ wpc' = [wpc EXCEPT ![c] = "lock_done"]
  /\ UNCHANGED <<heap, denoiser, processing_buffers, drv, outside>>

\* line 44: pthread_mutex_lock before publishing completion
WLockDone(c) ==
  /\ wpc[c] = "lock_done"
  /\ workers[c].mutex = "free"
  /\ workers' = [workers EXCEPT ![c].mutex = "worker"]
  /\ wpc' = [wpc EXCEPT ![c] = "publish"]
  /\ UNCHANGED <<heap, denoiser, processing_buffers, engine, drv, hist,
                 outside>>

\* lines 45-47: clear has_work, signal work_done, unlock
WPublish(c) ==
  /\ wpc[c] = "publish"
  /\ workers' = [workers EXCEPT ![c].has_work = FALSE, ![c].mutex = "free"]
  /\ drv' = SignalWorkDone(drv, c)
  /\ wpc' = [wpc EXCEPT ![c] = "lock"]
  /\ hist' = [hist EXCEPT !.done[c] = @ + 1,
                          !.first = IF @ = -1 THEN c ELSE @]
  /\ UNCHANGED <<heap, denoiser, processing_buffers, engine, outside>>

\* -------------------------------------------------------- denoiser_process
ArgCases == {"ok", "null_denoiser", "null_input", "null_output"}

\* line 412: if (!denoiser || !input_pcm || !output_pcm)
ArgsRejected(a) == a \in {"null_denoiser", "null_input", "null_output"}

\* input_pcm of the caller's n-th call, one channel and two channels
MonoInput(n) == [k \in StereoIdx |-> IF k \in Idx THEN Sample(n, k) ELSE 0]

StereoInput(n) == [k \in StereoIdx |-> Sample(n, k)]

\* faulty variant: strict comparison
IsSpeech_strict(total_vad, threshold) == total_vad > threshold

\* line 477 / line 492: total_vad >= denoiser->vad_threshold
IsSpeech(total_vad, threshold) == total_vad >= threshold

\* faulty variant: the sum is not divided
CombineScores_sum(sum, n) == sum

\* line 459: total_vad /= (float)denoiser->num_channels
CombineScores(sum, n) == sum \div n

\* faulty variant: the frame counter is not incremented
UpdateStatistics_nocount(d, total_vad, frame_time) ==
  [d EXCEPT
     !.total_vad_score = @ + total_vad,
     !.total_processing_time = @ + frame_time,
     !.last_frame_time = frame_time,
     !.speech_frames = IF IsSpeech(total_vad, d.vad_threshold) THEN @ + 1 ELSE @,
     !.min_vad_score = IF total_vad < @ THEN total_vad ELSE @,
     !.max_vad_score = IF total_vad > @ THEN total_vad ELSE @]

\* faulty variant: the maximum is updated only when the minimum was not
UpdateStatistics_elseif(d, total_vad, frame_time) ==
  [d EXCEPT
     !.frames_processed = @ + 1,
     !.total_vad_score = @ + total_vad,
     !.total_processing_time = @ + frame_time,
     !.last_frame_time = frame_time,
     !.speech_frames = IF IsSpeech(total_vad, d.vad_threshold) THEN @ + 1 ELSE @,
     !.min_vad_score = IF total_vad < @ THEN total_vad ELSE @,
     !.max_vad_score = IF total_vad < d.min_vad_score THEN @
                       ELSE IF total_vad > @ THEN total_vad ELSE @]

\* lines 472-487: statistics of one completed frame
UpdateStatistics(d, total_vad, frame_time) ==
  [d EXCEPT
     !.frames_processed = @ + 1,
     !.total_vad_score = @ + total_vad,
     !.total_processing_time = @ + frame_time,
     !.last_frame_time = frame_time,
     !.speech_frames = IF IsSpeech(total_vad, d.vad_threshold) THEN @ + 1 ELSE @,
     !.min_vad_score = IF total_vad < @ THEN total_vad ELSE @,
     !.max_vad_score = IF total_vad > @ THEN total_vad ELSE @]

\* faulty variant: with VAD output disabled the result is left as the caller passed it
FillResult_skip(d, total_vad, res_ptr, result) ==
  IF ~res_ptr THEN result
  ELSE IF d.enable_vad_output
  THEN [vad_probability |-> total_vad,
        is_speech |-> IsSpeech(total_vad, d.vad_threshold),
        samples_processed |-> FRAME_SIZE]
  ELSE result

\* lines 489-500: the caller's DenoiserResult
FillResult(d, total_vad, res_ptr, result) ==
  IF ~res_ptr THEN result
  ELSE IF d.enable_vad_output
  THEN [vad_probability |-> total_vad,
        is_speech |-> IsSpeech(total_vad, d.vad_threshold),
        samples_processed |-> FRAME_SIZE]
  ELSE [vad_probability |-> 0, is_speech |-> FALSE, samples_processed |-> 0]

\* lines 412-413: invalid arguments, nothing else is touched
ProcessInvalid ==
  /\ drv.pc = "idle"
  /\ drv.calls < MaxCalls
  /\ \E a \in ArgCases :
       /\ ArgsRejected(a)
       /\ drv' = [drv EXCEPT !.ret = "ERROR_INVALID", !.calls = @ + 1]
  /\ hist' = [hist EXCEPT !.rejected = @ + 1]
  /\ UNCHANGED <<heap, denoiser, processing_buffers, engine, workers, wpc,
                 outside>>

\* lines 422-428 and 465-502: one channel, processed on the caller's thread
ProcessMono ==
  /\ drv.pc = "idle"
  /\ drv.calls < MaxCalls
  /\ denoiser.num_channels = 1
  /\ \E a \in ArgCases, res_ptr \in BOOLEAN,
        score \in Scores, frame_time \in Elapsed :
       /\ ~ArgsRejected(a)
       /\ LET input == MonoInput(drv.calls + 1)
              in == pcm_int16_to_float(build, input, FRAME_SIZE)
              out == EngineOut(engine[0], in)
              pcm == pcm_float_to_int16(build, out, FRAME_SIZE)
          IN /\ processing_buffers' = [processing_buffers EXCEPT ![0] = out]
             /\ hist' = [hist EXCEPT
                           !.ok = @ + 1,
                           !.okcall = drv.calls + 1,
                           !.scores = @ \cup {score},
                           !.run[0] = [call |-> drv.calls + 1, in |-> in,
                                       out |-> out, score |-> score]]
             /\ drv' = [drv EXCEPT
                          !.calls = @ + 1,
                          !.input_pcm = input,
                          !.res_ptr = res_ptr,
                          !.total_vad = score,
                          !.output_pcm = [k \in StereoIdx |->
                                            IF k \in Idx THEN pcm[k] ELSE @[k]],
                          !.result = FillResult(denoiser, score, res_ptr,
                                                GarbageResult),
                          !.ret = "SUCCESS"]
             /\ denoiser' = UpdateStatistics(denoiser, score, frame_time)
  /\ engine' = [engine EXCEPT ![0] = @ + 1]
  /\ UNCHANGED <<heap, workers, wpc, outside>>

\* lines 431-432: two channels, de-interleave into the processing buffers
ProcessStereoBegin ==
  /\ drv.pc = "idle"
  /\ drv.calls < MaxCalls
  /\ denoiser.num_channels # 1
  /\ \E a \in ArgCases, res_ptr \in BOOLEAN :
       /\ ~ArgsRejected(a)
       /\ processing_buffers' = deinterleave_stereo(StereoInput(drv.calls + 1))
       /\ drv' = [drv EXCEPT !.pc = "dispatch_lock", !.i = 0, !.total_vad = 0,
                             !.calls = @ + 1,
                             !.input_pcm = StereoInput(drv.calls + 1),
                             !.res_ptr = res_ptr, !.result = GarbageResult,
                             !.ret = "NONE"]
  /\ hist' = [hist EXCEPT !.first = -1]
  /\ UNCHANGED <<heap, denoiser, engine, workers, wpc, outside>>

\* line 437: pthread_mutex_lock(&w->mutex) in the dispatch loop
DispatchLock ==
  /\ drv.pc = "dispatch_lock"
  /\ workers[drv.i].mutex = "free"
  /\ workers' = [workers EXCEPT ![drv.i].mutex = "driver"]
  /\ drv' = [drv EXCEPT !.pc = "dispatch"]
  /\ UNCHANGED <<heap, denoiser, processing_buffers, engine, wpc, hist,
                 outside>>

\* faulty variant: the driver waits for a worker right after queueing it
Dispatch_then_join ==
  /\ drv.pc = "dispatch"
  /\ LET c == drv.i IN
       /\ workers' = [workers EXCEPT ![c].input_buffer = processing_buffers[c],
                                     ![c].has_work = TRUE,
                                     ![c].mutex = "free"]
       /\ wpc' = SignalCond(wpc, c)
       /\ hist' = [hist EXCEPT !.queued[c] = @ + 1]
       /\ drv' = [drv EXCEPT !.pc = "join_lock", !.i = c]
  /\ UNCHANGED <<heap, denoiser, processing_buffers, engine, outside>>

\* lines 439-443: stage the input, set has_work, signal, unlock
Dispatch ==
  /\ drv.pc = "dispatch"
  /\ LET c == drv.i IN
       /\ workers' = [workers EXCEPT ![c].input_buffer = processing_buffers[c],
                                     ![c].has_work = TRUE,
                                     ![c].mutex = "free"]
       /\ wpc' = SignalCond(wpc, c)
       /\ hist' = [hist EXCEPT !.queued[c] = @ + 1]
       /\ drv' = IF c + 1 < denoiser.num_channels
                 THEN [drv EXCEPT !.pc = "dispatch_lock", !.i = c + 1]
                 ELSE [drv EXCEPT !.pc = "join_lock", !.i = 0]
  /\ UNCHANGED <<heap, denoiser, processing_buffers, engine, outside>>

\* line 449: pthread_mutex_lock(&w->mutex) in the join loop
JoinLock ==
  /\ drv.pc = "join_lock"
  /\ workers[drv.i].mutex = "free"
  /\ workers' = [workers EXCEPT ![drv.i].mutex = "driver"]
  /\ drv' = [drv EXCEPT !.pc = "join_check"]
  /\ UNCHANGED <<heap, denoiser, processing_buffers, engine, wpc, hist,
                 outside>>

\* faulty variant: the driver does not wait for completion
DriverMustWait_never(w) == FALSE

\* line 450: while (w->has_work)
DriverMustWait(w) == w.has_work

\* line 451: pthread_cond_wait(&w->work_done, &w->mutex)
JoinWait ==
  /\ drv.pc = "join_check"
  /\ DriverMustWait(workers[drv.i])
  /\ workers' = [workers EXCEPT ![drv.i].mutex = "free"]
  /\ drv' = [drv EXCEPT !.pc = "join_wait"]
  /\ UNCHANGED <<heap, denoiser, processing_buffers, engine, wpc, hist,
                 outside>>

\* pthread_cond_wait may return without a signal
JoinSpurious ==
  /\ drv.pc = "join_wait"
  /\ drv' = [drv EXCEPT !.pc = "join_reacquire"]
  /\ UNCHANGED <<heap, denoiser, processing_buffers, engine, workers, wpc, hist,
                 outside>>

\* pthread_cond_wait re-acquires the mutex before it returns
JoinReacquire ==
  /\ drv.pc = "join_reacquire"
  /\ workers[drv.i].mutex = "free"
  /\ workers' = [workers EXCEPT ![drv.i].mutex = "driver"]
  /\ drv' = [drv EXCEPT !.pc = "join_check"]
  /\ UNCHANGED <<heap, denoiser, processing_buffers, engine, wpc, hist,
                 outside>>

\* lines 454-457: copy the result back, add the score, unlock
JoinCollect ==
  /\ drv.pc = "join_check"
  /\ ~DriverMustWait(workers[drv.i])
  /\ LET c == drv.i IN
       /\ processing_buffers' =
            [processing_buffers EXCEPT ![c] = workers[c].output_buffer]
       /\ workers' = [workers EXCEPT ![c].mutex = "free"]
       /\ drv' = IF c + 1 < denoiser.num_channels
                 THEN [drv EXCEPT !.pc = "join_lock", !.i = c + 1,
                                  !.total_vad = @ + workers[c].vad_result]
                 ELSE [drv EXCEPT !.pc = "finish", !.i = c + 1,
                                  !.total_vad = @ + workers[c].vad_result]
  /\ UNCHANGED <<heap, denoiser, engine, wpc, hist, outside>>

\* lines 459-502: combine, re-interleave, statistics, result, return
Finish ==
  /\ drv.pc = "finish"
  /\ \E frame_time \in Elapsed :
       LET total_vad == CombineScores(drv.total_vad, denoiser.num_channels)
       IN /\ denoiser' = UpdateStatistics(denoiser, total_vad, frame_time)
          /\ drv' = [drv EXCEPT
                       !.pc = "idle",
                       !.total_vad = total_vad,
                       !.output_pcm = interleave_stereo(processing_buffers),
                       !.result = FillResult(denoiser, total_vad, drv.res_ptr, @),
                       !.ret = "SUCCESS"]
          /\ hist' = [hist EXCEPT !.ok = @ + 1, !.okcall = drv.calls,
                                   !.scores = @ \cup {total_vad}]
  /\ UNCHANGED <<heap, processing_buffers, engine, workers, wpc, outside>>

\* --------------------------------------------------------- denoiser_destroy
\* "live" while thread c can be joined
ThreadStatus(c) ==
  IF wpc[c] = "nothread" THEN "none"
  ELSE IF wpc[c] = "joined" THEN "released" ELSE "live"

\* the state of object o = <<name>> or <<name, channel>>
Status(o) ==
  IF Len(o) = 1 THEN heap[o[1]]
  ELSE IF o[1] = "thread" THEN ThreadStatus(o[2]) ELSE heap[o[1]][o[2]]

\* every object a context can own
Objects ==
  {<<"model">>, <<"processing_buffers">>, <<"denoisers">>, <<"workers">>}
  \cup {<<r, c>> : r \in {"state", "processing_buffer", "input_buffer",
                          "output_buffer", "mutex", "cond", "work_done",
                          "thread"},
                  c \in Chan}

\* the objects acquired and not released, the threads started and not joined
Held == {o \in Objects : Status(o) = "live"}

\* The objects the pending step of denoiser_destroy dereferences, locks,
\* signals, joins, destroys or frees.  free(NULL) uses nothing, and line 528
\* skips a NULL model.
DestroyUses ==
  LET i == drv.i
      n == denoiser.num_channels
      ptrs == {o \in {<<"model">>, <<"processing_buffers">>, <<"denoisers">>,
                      <<"workers">>} : Status(o) # "none"}
  IN IF drv.pc = "destroy_lock" THEN {<<"workers">>, <<"mutex", i>>}
     ELSE IF drv.pc = "destroy_stop"
     THEN {<<"workers">>, <<"mutex", i>>, <<"cond", i>>}
     ELSE IF drv.pc = "destroy_join"
     THEN {<<"workers">>, <<"thread", i>>, <<"mutex", i>>, <<"cond", i>>,
           <<"work_done", i>>}
     ELSE IF drv.pc = "destroy_free"
     THEN ptrs
          \cup (IF n > 0 THEN {<<"denoisers">>, <<"processing_buffers">>} ELSE {})
          \cup {<<"state", c>> : c \in {x \in Chan : x < n}}
          \cup {<<"processing_buffer", c>> : c \in {x \in Chan : x < n}}
     ELSE {}

\* objects of the pending step that were never created or are already gone
Misuse == {o \in DestroyUses : Status(o) # "live"}

\* lines 506-510: enter the stop loop, called in one of the given situations
DestroyFrom(pcs) ==
  /\ drv.pc \in pcs
  /\ drv.destroys < MaxDestroys
  /\ drv' = [drv EXCEPT !.pc = IF denoiser.num_channels > 0
                               THEN "destroy_lock" ELSE "destroy_free",
                        !.i = 0]
  /\ UNCHANGED <<heap, denoiser, processing_buffers, engine, workers, wpc, hist,
                 outside>>

\* a streaming caller destroys the context it created, once
DestroyBegin == DestroyFrom({"idle"})

\* any caller: also after denoiser_create failed, and again after a destroy
DestroyAny == DestroyFrom({"idle", "failed", "destroyed"})

\* line 512: pthread_mutex_lock(&w->mutex)
DestroyLock ==
  /\ drv.pc = "destroy_lock"
  /\ Misuse = {}
  /\ workers[drv.i].mutex = "free"
  /\ workers' = [workers EXCEPT ![drv.i].mutex = "driver"]
  /\ drv' = [drv EXCEPT !.pc = "destroy_stop"]
  /\ UNCHANGED <<heap, denoiser, processing_buffers, engine, wpc, hist,
                 outside>>

\* lines 513-515: set stop, signal, unlock
DestroyStop ==
  /\ drv.pc = "destroy_stop"
  /\ Misuse = {}
  /\ workers' = [workers EXCEPT ![drv.i].stop = TRUE, ![drv.i].mutex = "free"]
  /\ wpc' = SignalCond(wpc, drv.i)
  /\ drv' = [drv EXCEPT !.pc = "destroy_join"]
  /\ UNCHANGED <<heap, denoiser, processing_buffers, engine, hist, outside>>

\* faulty variant: the mutex and the conditions are destroyed without
\* waiting for the thread to end
DestroyJoin_nojoin ==
  /\ drv.pc = "destroy_join"
  /\ Misuse = {}
  /\ workers' = [workers EXCEPT ![drv.i].mutex = "destroyed"]
  /\ heap' = [heap EXCEPT !.mutex[drv.i] = Release(@),
                          !.cond[drv.i] = Release(@),
                          !.work_done[drv.i] = Release(@)]
  /\ drv' = IF drv.i + 1 < denoiser.num_channels
            THEN [drv EXCEPT !.pc = "destroy_lock", !.i = @ + 1]
            ELSE [drv EXCEPT !.pc = "destroy_free", !.i = @ + 1]
  /\ UNCHANGED <<denoiser, processing_buffers, engine, wpc, hist, outside>>

\* lines 516-519: pthread_join, then destroy the mutex and the conditions
DestroyJoin ==
  /\ drv.pc = "destroy_join"
  /\ Misuse = {}
  /\ wpc[drv.i] = "exited"
  /\ wpc' = [wpc EXCEPT ![drv.i] = "joined"]
  /\ workers' = [workers EXCEPT ![drv.i].mutex = "destroyed"]
  /\ heap' = [heap EXCEPT !.mutex[drv.i] = Release(@),
                          !.cond[drv.i] = Release(@),
                          !.work_done[drv.i] = Release(@)]
  /\ drv' = IF drv.i + 1 < denoiser.num_channels
            THEN [drv EXCEPT !.pc = "destroy_lock", !.i = @ + 1]
            ELSE [drv EXCEPT !.pc = "destroy_free", !.i = @ + 1]
  /\ UNCHANGED <<denoiser, processing_buffers, engine, hist, outside>>

\* lines 522-534: engine states and processing buffers of every channel, the
\* custom model, the three arrays
DestroyRelease(h, n) ==
  [h EXCEPT
     !.state = [c \in Chan |-> IF c < n THEN Release(@[c]) ELSE @[c]],
     !.processing_buffer = [c \in Chan |-> IF c < n THEN Release(@[c]) ELSE @[c]],
     !.model = Release(@),
     !.processing_buffers = Release(@),
     !.denoisers = Release(@),
     !.workers = Release(@)]

\* lines 522-535: release, then return
DestroyFree ==
  /\ drv.pc = "destroy_free"
  /\ Misuse = {}
  /\ heap' = DestroyRelease(heap, denoiser.num_channels)
  /\ drv' = [drv EXCEPT !.pc = "destroyed", !.destroys = @ + 1]
  /\ UNCHANGED <<denoiser, processing_buffers, engine, workers, wpc, hist,
                 outside>>

\* The pending step of denoiser_destroy uses an object that was never created
\* or is already gone: a NULL or dangling pointer is dereferenced, a
\* destroyed mutex locked, a joined thread joined, a freed block freed.  The
\* behaviour is undefined: the call may crash or appear to return.
DestroyUndefined ==
  /\ drv.pc \in {"destroy_lock", "destroy_stop", "destroy_join", "destroy_free"}
  /\ Misuse # {}
  /\ hist' = [hist EXCEPT !.misuse = @ \cup Misuse]
  /\ \E outcome \in {"crashed", "destroyed"} :
       drv' = [drv EXCEPT !.pc = outcome, !.destroys = @ + 1]
  /\ UNCHANGED <<heap, denoiser, processing_buffers, engine, workers, wpc,
                 outside>>

\* ----------------------------------------------------- buffer accesses
\* Fields of worker c that the driver's pending step reads ("r") or writes
\* ("w"): line 439 writes input_buffer, lines 454-456 read output_buffer and
\* vad_result once has_work is found clear.
DriverTouches(c) ==
  IF drv.i # c THEN {}
  ELSE IF drv.pc = "dispatch" THEN {<<"input_buffer", "w">>}
  ELSE IF drv.pc = "join_check" /\ ~DriverMustWait(workers[c])
  THEN {<<"output_buffer", "r">>, <<"vad_result", "r">>}
  ELSE {}

\* Fields of worker c that worker thread c's pending step reads or writes:
\* line 36 copies input_buffer to output_buffer, lines 40-41 run the engine
\* in place on output_buffer and store vad_result.
WorkerTouches(c) ==
  IF wpc[c] = "check" /\ ~WorkerMustWait(workers[c]) /\ ~workers[c].stop
  THEN {<<"input_buffer", "r">>, <<"output_buffer", "w">>}
  ELSE IF wpc[c] = "infer"
  THEN {<<"output_buffer", "r">>, <<"output_buffer", "w">>, <<"vad_result", "w">>}
  ELSE {}

\* has_work of worker c in the driver's pending step: line 441 sets it, line
\* 450 tests it.
DriverTouchesFlag(c) ==
  IF drv.i # c THEN {}
  ELSE IF drv.pc = "dispatch" THEN {<<"has_work", "w">>}
  ELSE IF drv.pc = "join_check" THEN {<<"has_work", "r">>}
  ELSE {}

\* has_work of worker c in worker thread c's pending step: line 27 tests it,
\* line 45 clears it.
WorkerTouchesFlag(c) ==
  IF wpc[c] = "check" THEN {<<"has_work", "r">>}
  ELSE IF wpc[c] = "publish" THEN {<<"has_work", "w">>}
  ELSE {}

\* the driver is inside a two-channel denoiser_process call
InCall ==
  drv.pc \in {"dispatch_lock", "dispatch", "join_lock", "join_check",
              "join_wait", "join_reacquire", "finish"}

\* denoiser_create succeeded and the driver is not inside denoiser_process
BetweenCalls ==
  /\ hist.cause = "none"
  /\ drv.pc \in {"idle", "destroy_lock", "destroy_stop", "destroy_join",
                 "destroy_free", "destroyed", "crashed"}

\* ------------------------------------------------------ get_denoiser_stats
\* a / b to the nearest integer, a tie to the even one: the digits printf
\* prints of a quotient at a fixed number of decimals
RoundDiv(a, b) ==
  LET q == a \div b
      r == a % b
  IN IF 2 * r < b THEN q
     ELSE IF 2 * r > b THEN q + 1
     ELSE IF q % 2 = 0 THEN q ELSE q + 1

\* lines 551-553, printed with %.3f: thousandths
AvgVad(d) ==
  IF d.frames_processed > 0
  THEN RoundDiv(1000 * d.total_vad_score, FloatUnit * d.frames_processed)
  ELSE 0

\* faulty variant: the fraction of speech frames, not the percentage
SpeechPercent_fraction(d) ==
  IF d.frames_processed > 0
  THEN RoundDiv(10 * d.speech_frames, d.frames_processed)
  ELSE 0

\* lines 554-557, printed with %.1f: tenths
SpeechPercent(d) ==
  IF d.frames_processed > 0
  THEN RoundDiv(10 * 100 * d.speech_frames, d.frames_processed)
  ELSE 0

\* lines 558-561, printed with %.3f: thousandths of a clock tick
AvgFrameTime(d) ==
  IF d.frames_processed > 0
  THEN RoundDiv(1000 * d.total_processing_time, d.frames_processed)
  ELSE 0

\* a float printed with %.3f: thousandths
Milli(v) == RoundDiv(1000 * v, FloatUnit)

\* lines 562-571: the numbers of the text, in the order of the format string
get_denoiser_stats(d) ==
  <<d.frames_processed, SpeechPercent(d), AvgVad(d),
    Milli(d.min_vad_score), Milli(d.max_vad_score),
    1000 * d.total_processing_time, AvgFrameTime(d),
    1000 * d.last_frame_time>>

\* scores and frame times of the frames a context has processed
StatScores == {0, 1, FloatHalf, 3, FloatOne}
StatTimes == {1, 2}
StatFrames ==
  UNION {[1 .. n -> StatScores \X StatTimes] : n \in 0 .. MaxStatFrames}

\* the context after denoiser_process on the frames of seq
RECURSIVE Accumulate(_, _)
Accumulate(d, seq) ==
  IF seq = <<>> THEN d
  ELSE Accumulate(UpdateStatistics(d, Head(seq)[1], Head(seq)[2]), Tail(seq))

\* A one-channel context that has processed up to MaxStatFrames frames; the
\* threads and buffers of the context play no part in get_denoiser_stats.
StatsInit ==
  /\ \E seq \in StatFrames, stats_enabled \in BOOLEAN :
       LET config == [NoConfig EXCEPT !.present = TRUE,
                                      !.stats_enabled = stats_enabled]
       IN /\ denoiser =
               Accumulate(CreateEntry(ZeroDenoiser, config, "none").denoiser,
                          seq)
          /\ ThreadsInit(config)
  /\ build \in {"simd"}
  /\ conv = NoConv
  /\ stats_buffer = NoStats
  /\ rt = NoFrameCall
  /\ audx = NoAudx

\* lines 546-573: NULL for a NULL context, otherwise the text in the static
\* buffer
GetStats ==
  /\ \E present \in BOOLEAN :
       stats_buffer' =
         IF present
         THEN [buffer |-> get_denoiser_stats(denoiser), ret |-> "stats_buffer"]
         ELSE [stats_buffer EXCEPT !.ret = "NULL"]
  /\ UNCHANGED <<context, build, conv, rt, audx>>

\* ------------------------------------------------- callers of converters
\* Any caller of the converters: buffers of any count up to MaxCount.
ConvInit ==
  /\ ContextInit
  /\ build \in Builds
  /\ stats_buffer = NoStats
  /\ rt = NoFrameCall
  /\ audx = NoAudx
  /\ \E count \in 0 .. MaxCount, shift \in Shifts :
       conv = [NoConv EXCEPT
                 !.count = count,
                 !.pcm = Buffer(Int16Samples, count, shift),
                 !.floats = Buffer(FloatSamples, count, shift),
                 !.right = Buffer(FloatSamples, count, shift + 7)]

\* pcm_int16_to_float(conv.pcm, conv.float_out, conv.count)
ConvertToFloat ==
  /\ "to_float" \notin conv.ran
  /\ conv' = [conv EXCEPT
                !.float_out = pcm_int16_to_float(build, conv.pcm, conv.count),
                !.ran = @ \cup {"to_float"}]
  /\ UNCHANGED <<context, build, stats_buffer, rt, audx>>

\* pcm_float_to_int16(conv.float_out, conv.back, conv.count)
ConvertBack ==
  /\ "to_float" \in conv.ran
  /\ "back" \notin conv.ran
  /\ conv' = [conv EXCEPT
                !.back = pcm_float_to_int16(build, conv.float_out, conv.count),
                !.ran = @ \cup {"back"}]
  /\ UNCHANGED <<context, build, stats_buffer, rt, audx>>

\* pcm_float_to_int16(conv.floats, conv.pcm_out, conv.count)
ConvertToInt16 ==
  /\ "to_int16" \notin conv.ran
  /\ conv' = [conv EXCEPT
                !.pcm_out = pcm_float_to_int16(build, conv.floats, conv.count),
                !.ran = @ \cup {"to_int16"}]
  /\ UNCHANGED <<context, build, stats_buffer, rt, audx>>

\* interleave_stereo(conv.floats, conv.right, conv.stereo_out, conv.count)
Interleave ==
  /\ "interleave" \notin conv.ran
  /\ conv' = [conv EXCEPT
                !.stereo_out =
                   interleave_stereo([c \in Chan |->
                     IF c = 0 THEN conv.floats ELSE conv.right]),
                !.ran = @ \cup {"interleave"}]
  /\ UNCHANGED <<context, build, stats_buffer, rt, audx>>

\* ------------------------------------------------------ audx_process_frame
\* src/src/audx/audx_realtime.c.  The denoiser and the resamplers are
\* collaborators of this function: a call of one of them is a step with the
\* results its declaration allows.
AUDX_DEFAULT_SAMPLE_RATE == 48000

\* state->input_rate as passed by the caller
Rates == {0, 8000, 16000, 48000, 192000, 192001}

is_valid_sample_rate(rate) == rate >= 8000 /\ rate <= 192000

\* lines 12-14: the samples of a 10 ms frame
get_frame_samples(input_rate) == (input_rate * 10) \div 1000

\* faulty variant: the rate is used as the caller passed it
ValidatedRate_asis(rate) == rate

\* audx_init, lines 50-52
ValidatedRate(rate) ==
  IF is_valid_sample_rate(rate) THEN rate ELSE AUDX_DEFAULT_SAMPLE_RATE

\* audx_resample_create (resample.c lines 6-28): a new instance, or NULL
audx_resample_create(id, from, to, ok) ==
  IF ok THEN [id |-> id, from |-> from, to |-> to] ELSE NullResampler

\* audx_resample_process on valid arguments (resample.c lines 43-54)
ResampleResults == {"SUCCESS", "ERROR_EXTERNAL"}

\* denoiser_process: 0 on success, a negative code on failure
DenoiseResults == {"SUCCESS", "ERROR_INVALID"}

\* denoiser_create: 0 on success, a negative code on failure
DenoiserCreateResults == {"SUCCESS", "ERROR_INVALID", "ERROR_MEMORY"}

\* get_denoiser_stats: the int that line 234 tests
StatsResults == {"SUCCESS", "ERROR_INVALID"}

\* pointers the caller passes: state, input, ret_output
FrameArgs == [state : BOOLEAN, input : BOOLEAN, ret_output : BOOLEAN]

\* the step of lines 114-154 that fails, if any
SetupFaults ==
  {"none", "output_file", "input_buffer", "output_buffer",
   "resampled_input", "resampled_output", "upsampler", "downsampler"}
ResampleSetup ==
  {"resampled_input", "resampled_output", "upsampler", "downsampler"}

\* malloc: the buffer, or NULL for the one that fails
Malloc(name, fault) == IF fault = name THEN "none" ELSE "live"

\* faulty variant: nothing is released
Dispose_never(s) == s

\* free / fclose / destroy of what was acquired
Dispose(s) == IF s = "live" THEN "released" ELSE s

\* lines 61-112: arguments, input file, frame geometry, denoiser_create
\* tail is the length of a short last frame of the file, 0 when there is none
FrameEnter ==
  /\ rt.pc = "nocall"
  /\ audx.pc = "nostate"
  /\ \E args \in FrameArgs, rate \in Rates, stats_enabled \in BOOLEAN,
        on_progress \in BOOLEAN, frames \in 0 .. MaxFileFrames,
        tail \in {0, 1, 79}, opens \in BOOLEAN,
        created \in DenoiserCreateResults :
       /\ tail > 0 => frames > 0
       /\ rt' =
            IF ~args.state \/ ~args.input \/ ~args.ret_output
            THEN [rt EXCEPT !.pc = "returned", !.ret = "ERROR_INVALID",
                            !.cause = "args"]
            ELSE IF ~opens
            THEN [rt EXCEPT !.pc = "returned", !.ret = "ERROR_INVALID",
                            !.cause = "input_file"]
            ELSE IF created # "SUCCESS"
            THEN [rt EXCEPT !.pc = "returned", !.ret = created,
                            !.cause = "denoiser",
                            !.input_file = "released",
                            !.stats_enabled = stats_enabled,
                            !.ret_stats.header = stats_enabled]
            ELSE [rt EXCEPT
                    !.pc = "setup", !.ret = created,
                    !.raw_rate = rate,
                    !.input_rate = ValidatedRate(rate),
                    !.needs_resampling =
                       (ValidatedRate(rate) # AUDX_DEFAULT_SAMPLE_RATE),
                    !.stats_enabled = stats_enabled,
                    !.on_progress = on_progress,
                    !.frames_left = frames, !.tail = tail,
                    !.frame_samples = get_frame_samples(ValidatedRate(rate)),
                    !.file_samples =
                       IF tail > 0
                       THEN (frames - 1) * get_frame_samples(ValidatedRate(rate))
                            + tail
                       ELSE frames * get_frame_samples(ValidatedRate(rate)),
                    !.input_file = "live", !.denoiser = "live",
                    !.ret_stats.header = stats_enabled]
  /\ UNCHANGED <<context, build, conv, stats_buffer, audx>>

\* lines 114-154: output file, frame buffers and, when resampling is
\* needed, the resample buffers and the two resamplers
FrameSetup ==
  /\ rt.pc = "setup"
  /\ \E fault \in SetupFaults :
       /\ fault \in ResampleSetup => rt.needs_resampling
       /\ LET frame_buffers == fault \notin {"output_file"}
              resample_buffers ==
                /\ rt.needs_resampling
                /\ fault \notin {"output_file", "input_buffer", "output_buffer"}
              resamplers ==
                /\ resample_buffers
                /\ fault \notin {"resampled_input", "resampled_output"}
              up == audx_resample_create(1, rt.input_rate,
                                         AUDX_DEFAULT_SAMPLE_RATE,
                                         fault # "upsampler")
              down == audx_resample_create(2, AUDX_DEFAULT_SAMPLE_RATE,
                                           rt.input_rate,
                                           fault # "downsampler")
          IN rt' = [rt EXCEPT
               !.output_file = IF fault = "output_file" THEN "none" ELSE "live",
               !.input_buffer =
                  IF frame_buffers THEN Malloc("input_buffer", fault) ELSE @,
               !.output_buffer =
                  IF frame_buffers THEN Malloc("output_buffer", fault) ELSE @,
               !.resampled_input =
                  IF resample_buffers THEN Malloc("resampled_input", fault)
                  ELSE @,
               !.resampled_output =
                  IF resample_buffers THEN Malloc("resampled_output", fault)
                  ELSE @,
               !.upsampler = IF resamplers THEN up ELSE @,
               !.downsampler = IF resamplers THEN down ELSE @,
               !.created =
                  IF resamplers THEN {up, down} \ {NullResampler} ELSE @,
               !.ret =
                  IF fault \in {"output_file", "upsampler", "downsampler"}
                  THEN "ERROR_INVALID"
                  ELSE IF fault # "none" THEN "ERROR_MEMORY" ELSE @,
               !.cause = fault,
               !.pc = IF fault = "none" THEN "read" ELSE "cleanup"]
  /\ UNCHANGED <<context, build, conv, stats_buffer, audx>>

\* lines 164-177: read one frame; nothing read ends the loop, a short final
\* frame is padded with zeros
FrameRead ==
  /\ rt.pc = "read"
  /\ LET read == IF rt.frames_left = 0 THEN 0
                 ELSE IF rt.frames_left = 1 /\ rt.tail > 0 THEN rt.tail
                 ELSE rt.frame_samples
     IN rt' = IF read = 0
              THEN [rt EXCEPT !.read = 0, !.pc = "stats"]
              ELSE [rt EXCEPT
                      !.frames_left = @ - 1,
                      !.read = read,
                      !.samples_read = @ + read,
                      !.short = read < rt.frame_samples,
                      !.padded = rt.frame_samples - read,
                      !.log = <<>>,
                      !.pc = IF rt.needs_resampling THEN "upsample"
                             ELSE "denoise"]
  /\ UNCHANGED <<context, build, conv, stats_buffer, audx>>

\* lines 179-190: input rate to 48 kHz
FrameUpsample ==
  /\ rt.pc = "upsample"
  /\ \E r \in ResampleResults :
       rt' = [rt EXCEPT
                !.ret = r,
                !.log = Append(@, [op |-> "resample", h |-> rt.upsampler]),
                !.up_used = @ \cup {rt.upsampler},
                !.failed = IF r # "SUCCESS" THEN "upsample" ELSE @,
                !.pc = IF r # "SUCCESS" THEN "stats" ELSE "denoise"]
  /\ UNCHANGED <<context, build, conv, stats_buffer, audx>>

\* lines 192-197: denoiser_process on the 48 kHz frame
FrameDenoise ==
  /\ rt.pc = "denoise"
  /\ \E r \in DenoiseResults :
       rt' = [rt EXCEPT
                !.ret = r,
                !.log = Append(@, [op |-> "denoise", h |-> NullResampler]),
                !.failed = IF r # "SUCCESS" THEN "denoise" ELSE @,
                !.pc = IF r # "SUCCESS" THEN "stats"
                       ELSE IF rt.needs_resampling THEN "downsample"
                       ELSE "write"]
  /\ UNCHANGED <<context, build, conv, stats_buffer, audx>>

\* lines 199-209: 48 kHz back to the input rate
FrameDownsample ==
  /\ rt.pc = "downsample"
  /\ \E r \in ResampleResults :
       rt' = [rt EXCEPT
                !.ret = r,
                !.log = Append(@, [op |-> "resample", h |-> rt.downsampler]),
                !.down_used = @ \cup {rt.downsampler},
                !.failed = IF r # "SUCCESS" THEN "downsample" ELSE @,
                !.pc = IF r # "SUCCESS" THEN "stats" ELSE "write"]
  /\ UNCHANGED <<context, build, conv, stats_buffer, audx>>

\* faulty variant: the whole frame is written, padding included
FrameWrite_full ==
  /\ rt.pc = "write"
  /\ LET count == rt.frame_count + 1
         report == count % 100 = 0 \/ rt.read < rt.frame_samples
     IN \E outcome \in {"crashed", "read"} :
          /\ outcome = "crashed" => (report /\ ~rt.on_progress)
          /\ rt' = [rt EXCEPT
                      !.written = @ + 1,
                      !.samples_written = @ + rt.frame_samples,
                      !.frame_count = count,
                      !.progress = IF report /\ rt.on_progress THEN @ + 1 ELSE @,
                      !.null_call = @ \/ (report /\ ~rt.on_progress),
                      !.pc = outcome]
  /\ UNCHANGED <<context, build, conv, stats_buffer, audx>>

\* lines 211-220: write the samples that were read, count the frame, report
\* progress.  The call through a NULL on_progress is undefined: it ends the
\* program or appears to return.
FrameWrite ==
  /\ rt.pc = "write"
  /\ LET count == rt.frame_count + 1
         samples_to_write ==
           IF rt.read < rt.frame_samples THEN rt.read ELSE rt.frame_samples
         report == count % 100 = 0 \/ rt.read < rt.frame_samples
     IN \E outcome \in {"crashed", "read"} :
          /\ outcome = "crashed" => (report /\ ~rt.on_progress)
          /\ rt' = [rt EXCEPT
                      !.written = @ + 1,
                      !.samples_written = @ + samples_to_write,
                      !.frame_count = count,
                      !.progress = IF report /\ rt.on_progress THEN @ + 1 ELSE @,
                      !.null_call = @ \/ (report /\ ~rt.on_progress),
                      !.pc = outcome]
  /\ UNCHANGED <<context, build, conv, stats_buffer, audx>>

\* faulty variant: the statistics are copied whether enabled or not
FrameStats_always ==
  /\ rt.pc = "stats"
  /\ \E r \in StatsResults :
       rt' = [rt EXCEPT
                !.ret = r,
                !.ret_stats.stats = (r = "SUCCESS"),
                !.pc = "cleanup"]
  /\ UNCHANGED <<context, build, conv, stats_buffer, audx>>

\* lines 222-251: after the loop, whatever ended it: the statistics are
\* fetched and their result becomes the return code
FrameStats ==
  /\ rt.pc = "stats"
  /\ \E r \in StatsResults :
       rt' = [rt EXCEPT
                !.ret = r,
                !.ret_stats.stats = (r = "SUCCESS" /\ rt.stats_enabled),
                !.pc = "cleanup"]
  /\ UNCHANGED <<context, build, conv, stats_buffer, audx>>

\* lines 253-278: release everything and return ret
FrameCleanup ==
  /\ rt.pc = "cleanup"
  /\ rt' = [rt EXCEPT
              !.destroyed = rt.created,
              !.input_buffer = Dispose(@), !.output_buffer = Dispose(@),
              !.resampled_input = Dispose(@), !.resampled_output = Dispose(@),
              !.denoiser = Dispose(@),
              !.input_file = Dispose(@), !.output_file = Dispose(@),
              !.pc = "returned"]
  /\ UNCHANGED <<context, build, conv, stats_buffer, audx>>

\* ------------------------------------------------------------------ audx.c
\* src/src/audx.c: audx_create, audx_process, audx_destroy.
FRAME_RATE == 48000

\* audx.h line 156: the samples of a 10 ms frame.  The product stays far
\* below the 32 bits of unsigned int for the rates of Rates.
calculate_frame_sample(sample_rate) == (sample_rate * 10) \div 1000

\* what audx_create acquires, in the order of the code
AudxSteps ==
  <<"arena", "state", "upsampler", "upsampler_buf", "downsampler",
    "downsampler_buf", "denoiser">>
AudxResampleSteps ==
  {"upsampler", "upsampler_buf", "downsampler", "downsampler_buf"}
AudxFaults == {"none"} \cup {AudxSteps[k] : k \in 1 .. Len(AudxSteps)}

AudxStepIndex(step) ==
  IF step = "none" THEN Len(AudxSteps) + 1
  ELSE CHOOSE k \in 1 .. Len(AudxSteps) : AudxSteps[k] = step

\* audx_resampler_create (audx_resampler.c lines 9-23): a new instance, or
\* NULL
audx_resampler_create(id, from, to, ok) ==
  IF ok THEN [id |-> id, from |-> from, to |-> to] ELSE NullResampler

\* audx_resampler_process on valid arguments (audx_resampler.c lines 32-37)
ResamplerResults == {0, -1}

\* lines 33-98.  Every failure path returns NULL; all of them but the
\* failed allocation of the state release what was acquired before.
\* speex_resampler_init rejects a rate of 0.
AudxCreate ==
  /\ audx.pc = "nostate"
  /\ rt.pc = "nocall"
  /\ \E in_rate \in Rates, fault \in AudxFaults :
       LET need == in_rate # FRAME_RATE
           acquired(step) ==
             /\ AudxStepIndex(step) < AudxStepIndex(fault)
             /\ step \in AudxResampleSteps => need
           after(step) ==
             IF ~acquired(step) THEN "none"
             ELSE IF fault \in {"none", "state"} THEN "live"
             ELSE "released"
           up == audx_resampler_create(1, in_rate, FRAME_RATE,
                                       acquired("upsampler"))
           down == audx_resampler_create(2, FRAME_RATE, in_rate,
                                         acquired("downsampler"))
       IN /\ fault \in AudxResampleSteps => need
          /\ in_rate = 0 => fault \in {"arena", "state", "upsampler"}
          /\ audx' = [audx EXCEPT
                        !.pc = IF fault = "none" THEN "ready" ELSE "null",
                        !.in_rate = in_rate,
                        !.in_len = calculate_frame_sample(in_rate),
                        !.downsampler_buf_len =
                           IF acquired("downsampler_buf")
                           THEN calculate_frame_sample(in_rate) ELSE 0,
                        !.need_resample = need,
                        !.upsampler = up,
                        !.downsampler = down,
                        !.created = {up, down} \ {NullResampler},
                        !.res = [step \in DOMAIN audx.res |-> after(step)]]
  /\ UNCHANGED <<context, build, conv, stats_buffer, rt>>

\* audx_denoise_process: the speech probability, or a negative value
AudxDenoiseResults == {"vad_prob", "-1.0"}

\* lines 100-157: one frame through audx_process (float samples) or
\* audx_process_int (16-bit samples in a scratch array tmp_out of FRAME_SIZE
\* floats).  With resampling the frame goes to the upsampler, the denoiser
\* and the downsampler, and the first failure returns -1.0.  The denoiser
\* writes FRAME_SIZE floats to its output buffer; the downsampler may write
\* in_len floats to its output; audx_process_int converts in_len floats of
\* tmp_out whatever the result.  A write or read past the end of a buffer
\* is undefined: the call ends the program or appears to return.
AudxProcess(int) ==
  /\ audx.pc = "ready"
  /\ \E valid \in BOOLEAN, up_ret \in ResamplerResults,
        vad \in AudxDenoiseResults, down_ret \in ResamplerResults,
        outcome \in {"ready", "crashed"} :
       LET up == [op |-> "resample", h |-> audx.upsampler]
           dn == [op |-> "resample", h |-> audx.downsampler]
           de == [op |-> "denoise", h |-> NullResampler]
           frame_size == 480
           denoised == valid /\ (audx.need_resample => up_ret = 0)
           downsampled == denoised /\ audx.need_resample /\ vad # "-1.0"
           used == IF ~valid \/ ~int THEN 0
                   ELSE IF downsampled /\ audx.in_len > frame_size
                   THEN audx.in_len
                   ELSE IF ~audx.need_resample /\ frame_size > audx.in_len
                   THEN frame_size
                   ELSE audx.in_len
           overflow ==
             \/ denoised /\ audx.need_resample
                /\ frame_size > audx.downsampler_buf_len
             \/ int /\ used > frame_size
           r == IF ~valid
                THEN [audx EXCEPT !.log = <<>>, !.ret = "-1.0"]
                ELSE IF ~audx.need_resample
                THEN [audx EXCEPT !.log = <<de>>, !.ret = vad]
                ELSE IF up_ret < 0
                THEN [audx EXCEPT !.log = <<up>>, !.ret = "-1.0",
                                  !.up_used = @ \cup {audx.upsampler}]
                ELSE IF vad = "-1.0"
                THEN [audx EXCEPT !.log = <<up, de>>, !.ret = "-1.0",
                                  !.up_used = @ \cup {audx.upsampler}]
                ELSE [audx EXCEPT
                        !.log = <<up, de, dn>>,
                        !.ret = IF down_ret < 0 THEN "-1.0" ELSE vad,
                        !.up_used = @ \cup {audx.upsampler},
                        !.down_used = @ \cup {audx.downsampler}]
       IN /\ outcome = "crashed" => overflow
          /\ audx' = [r EXCEPT
                        !.pc = outcome,
                        !.entry = IF ~valid THEN "none"
                                  ELSE IF int THEN "audx_process_int"
                                  ELSE "audx_process",
                        !.denoise_out =
                           IF ~denoised THEN "none"
                           ELSE IF audx.need_resample THEN "downsampler_buf"
                           ELSE IF int THEN "tmp_out" ELSE "out",
                        !.denoise_written = IF denoised THEN frame_size ELSE 0,
                        !.tmp_out_len = IF valid /\ int THEN frame_size ELSE 0,
                        !.tmp_out_used = used]
  /\ UNCHANGED <<context, build, conv, stats_buffer, rt>>

\* lines 159-170
AudxDestroy ==
  /\ audx.pc = "ready"
  /\ audx' = [audx EXCEPT
                !.pc = "destroyed",
                !.res = [step \in DOMAIN audx.res |->
                           IF step \in {"upsampler", "downsampler"}
                              /\ audx.in_rate = FRAME_RATE
                           THEN audx.res[step]
                           ELSE Dispose(audx.res[step])]]
  /\ UNCHANGED <<context, build, conv, stats_buffer, rt>>

\* ------------------------------------------------------------ specification
Worker(c) ==
  \/ WLock(c)
  \/ WWait(c)
  \/ WSpurious(c)
  \/ WReacquire(c)
  \/ WStop(c)
  \/ WCopy(c)
  \/ WInfer(c)
  \/ WLockDone(c)
  \/ WPublish(c)

Driver ==
  \/ Create
  \/ CreateChannel
  \/ CleanupLock
  \/ CleanupStop
  \/ CleanupJoin
  \/ CleanupFree
  \/ ProcessInvalid
  \/ ProcessMono
  \/ ProcessStereoBegin
  \/ DispatchLock
  \/ Dispatch
  \/ JoinLock
  \/ JoinWait
  \/ JoinSpurious
  \/ JoinReacquire
  \/ JoinCollect
  \/ Finish
  \/ DestroyBegin
  \/ DestroyLock
  \/ DestroyStop
  \/ DestroyJoin
  \/ DestroyFree

Next == Driver \/ \E c \in Chan : Worker(c)

Spec == Init /\ [][Next]_vars

\* The life cycle of a context for every configuration and every caller:
\* creation with each failure, destruction after success and after failure,
\* repeated destruction.  No frame is processed, so the workers only park
\* and stop.
LifecycleWorker(c) ==
  \/ WLock(c)
  \/ WWait(c)
  \/ WSpurious(c)
  \/ WReacquire(c)
  \/ WStop(c)

LifecycleDriver ==
  \/ CreateAny
  \/ CreateChannel
  \/ CleanupLock
  \/ CleanupStop
  \/ CleanupJoin
  \/ CleanupFree
  \/ DestroyAny
  \/ DestroyLock
  \/ DestroyStop
  \/ DestroyJoin
  \/ DestroyFree
  \/ DestroyUndefined

LifecycleNext == LifecycleDriver \/ \E c \in Chan : LifecycleWorker(c)

LifecycleSpec == Init /\ [][LifecycleNext]_vars

\* Fair scheduling: a thread that can take a step of its code eventually
\* takes it, a thread that can lock a mutex again and again eventually gets
\* it, and the engine returns.  Spurious wakeups and the caller's decision to
\* make another call are not forced.
DriverCallStep ==
  \/ Dispatch \/ JoinWait \/ JoinCollect \/ Finish
  \/ DestroyStop \/ DestroyJoin \/ DestroyFree

DriverLockStep == DispatchLock \/ JoinLock \/ JoinReacquire \/ DestroyLock

WorkerCodeStep(c) == WWait(c) \/ WStop(c) \/ WCopy(c) \/ WInfer(c) \/ WPublish(c)

WorkerLockStep(c) == WLock(c) \/ WReacquire(c) \/ WLockDone(c)

Fairness ==
  /\ WF_vars(DriverCallStep)
  /\ SF_vars(DriverLockStep)
  /\ \A c \in Chan : WF_vars(WorkerCodeStep(c)) /\ SF_vars(WorkerLockStep(c))

LiveSpec == Spec /\ Fairness

\* Callers of the converters with buffers of every count.
ConvNext == ConvertToFloat \/ ConvertBack \/ ConvertToInt16 \/ Interleave

ConvSpec == ConvInit /\ [][ConvNext]_vars

\* A program that runs a file through audx_process_frame, or frames
\* through the functions of audx.c.
FrameNext ==
  \/ FrameEnter
  \/ FrameSetup
  \/ FrameRead
  \/ FrameUpsample
  \/ FrameDenoise
  \/ FrameDownsample
  \/ FrameWrite
  \/ FrameStats
  \/ FrameCleanup

AudxNext ==
  AudxCreate \/ AudxProcess(FALSE) \/ AudxProcess(TRUE) \/ AudxDestroy

PipelineNext == FrameNext \/ AudxNext

PipelineSpec == Init /\ [][PipelineNext]_vars

\* A caller that reads the statistics of a context.
StatsNext == GetStats

StatsSpec == StatsInit /\ [][StatsNext]_vars

\* ------------------------------------------------------------------ claims
\* C4: under fair scheduling and an engine that always returns, every
\* denoiser_process call on a two-channel context eventually returns.
C4_ProcessReturns == InCall ~> (drv.pc = "idle")

\* a driver blocked on work_done while the worker is about to signal it
C4_Witness ==
  /\ drv.pc = "join_wait"
  /\ wpc[drv.i] = "publish"
  /\ hist.ok >= 1

\* C1: on a two-channel context every successful denoiser_process call makes
\* each worker run the engine exactly once, on that call's frame: an engine
\* never lags behind the completed calls, is never more than the call in
\* progress ahead of them, and between calls its last run belongs to the last
\* successful call and consumed that call's samples of its channel.
C1_ExactlyOnce ==
  denoiser.num_channels = 2 =>
    \A c \in Chan :
      /\ engine[c] >= hist.ok
      /\ engine[c] <= hist.ok + 1
      /\ BetweenCalls => engine[c] = hist.ok
      /\ (BetweenCalls /\ hist.ok > 0) =>
           /\ hist.run[c].call = hist.okcall
           /\ \A k \in Idx : hist.run[c].in[k] = drv.input_pcm[2 * k + c] * FloatUnit

\* every call of the budget was a successful two-channel call
C1_Witness ==
  /\ denoiser.num_channels = 2
  /\ drv.pc = "idle"
  /\ hist.ok = MaxCalls
  /\ \A c \in Chan : engine[c] = MaxCalls /\ hist.done[c] = MaxCalls

\* C2: while worker c runs inference the driver's pending step touches none of
\* worker c's input_buffer, output_buffer and vad_result, and no field of a
\* worker is ever touched by the driver and the worker at once with one of
\* them writing.
C2_NoConcurrentAccess ==
  \A c \in Chan :
    /\ wpc[c] = "infer" => DriverTouches(c) = {}
    /\ \A a \in DriverTouches(c), b \in WorkerTouches(c) :
         a[1] = b[1] => (a[2] = "r" /\ b[2] = "r")

\* the driver holds worker c's mutex in the join loop while c runs inference
C2_Witness ==
  \E c \in Chan :
    /\ wpc[c] = "infer"
    /\ drv.pc = "join_check"
    /\ drv.i = c
    /\ workers[c].mutex = "driver"

\* C3: the driver queues a frame on a worker only while that worker is idle,
\* denoiser_process returns only after every dispatched worker cleared
\* has_work, at most one frame is outstanding per worker, and the next frame
\* is not dispatched before the previous one was joined on both channels.
C3_OneOutstanding ==
  denoiser.num_channels = 2 =>
    \A c \in Chan :
      /\ (drv.pc = "dispatch" /\ drv.i = c) =>
           /\ ~workers[c].has_work
           /\ wpc[c] \notin {"infer", "lock_done", "publish"}
           /\ hist.queued[c] = hist.ok
           /\ hist.done[c] = hist.ok
      /\ BetweenCalls => (~workers[c].has_work /\ hist.done[c] = hist.queued[c])
      /\ hist.queued[c] - hist.done[c] \in {0, 1}
      /\ workers[c].has_work <=> (hist.queued[c] - hist.done[c] = 1)
      /\ hist.queued[c] <= hist.ok + 1
      /\ hist.done[c] >= hist.ok

\* the second frame is being queued on worker 1
C3_Witness ==
  /\ drv.pc = "dispatch"
  /\ drv.i = 1
  /\ hist.ok >= 1
  /\ workers[0].has_work

\* C5: what the driver copied from worker c when the join loop is over is the
\* engine's output and score for channel c's samples of the call in progress,
\* and after the call channel c's samples are at output positions 2k+c.
C5_ResultOfThisCall ==
  denoiser.num_channels = 2 =>
    /\ drv.pc = "finish" =>
         /\ \A c \in Chan :
              /\ hist.run[c].call = drv.calls
              /\ \A k \in Idx :
                   hist.run[c].in[k] = drv.input_pcm[2 * k + c] * FloatUnit
              /\ processing_buffers[c] = hist.run[c].out
         /\ drv.total_vad = hist.run[0].score + hist.run[1].score
    /\ (drv.pc = "idle" /\ drv.ret = "SUCCESS" /\ hist.ok > 0) =>
         \A c \in Chan :
           /\ hist.run[c].call = hist.okcall
           /\ \A k \in Idx :
                /\ hist.run[c].in[k] = drv.input_pcm[2 * k + c] * FloatUnit
                /\ drv.output_pcm[2 * k + c] = ClampToInt16(hist.run[c].out[k])

\* a second stereo call has returned and the two channels differ
C5_Witness ==
  /\ denoiser.num_channels = 2
  /\ drv.pc = "idle"
  /\ drv.ret = "SUCCESS"
  /\ hist.ok >= 2
  /\ hist.run[0].out # hist.run[1].out
  /\ hist.run[0].score # hist.run[1].score

C7_MinMax ==
  (BetweenCalls \/ InCall) =>
    /\ hist.ok = 0 =>
         (denoiser.min_vad_score = FloatOne /\ denoiser.max_vad_score = 0)
    /\ hist.ok >= 1 =>
         /\ denoiser.min_vad_score <= denoiser.max_vad_score
         /\ 0 <= denoiser.min_vad_score
         /\ denoiser.max_vad_score <= FloatOne
         /\ denoiser.min_vad_score \in hist.scores
         /\ denoiser.max_vad_score \in hist.scores
         /\ \A x \in hist.scores :
              denoiser.min_vad_score <= x /\ x <= denoiser.max_vad_score

\* two frames with different combined scores, neither 0.0 twice nor 1.0 twice
C7_Witness ==
  /\ hist.ok >= 2
  /\ denoiser.min_vad_score < denoiser.max_vad_score
  /\ Cardinality(hist.scores) = 2

\* C8: the combined score of a two-channel call is the arithmetic mean of the
\* two workers' scores of that call, whichever worker finished first.
C8_ArithmeticMean ==
  (denoiser.num_channels = 2 /\ BetweenCalls /\ hist.ok > 0) =>
    /\ hist.first \in Chan
    /\ 2 * drv.total_vad = hist.run[0].score + hist.run[1].score
    /\ (drv.res_ptr /\ denoiser.enable_vad_output /\ drv.ret = "SUCCESS") =>
         2 * drv.result.vad_probability = hist.run[0].score + hist.run[1].score

\* worker 1 finished before worker 0 and the two scores differ
C8_Witness ==
  /\ denoiser.num_channels = 2
  /\ drv.pc = "idle"
  /\ hist.ok > 0
  /\ hist.first = 1
  /\ hist.run[0].score = FloatOne
  /\ hist.run[1].score = 0
  /\ drv.total_vad = FloatHalf

\* C9: a frame is speech exactly when its combined score is >= the threshold:
\* speech_frames grows by one on exactly those frames, is_speech (VAD output
\* enabled) is true on exactly those frames, and speech_frames never exceeds
\* frames_processed.
C9_SpeechDecision ==
  /\ [](denoiser.speech_frames <= denoiser.frames_processed)
  /\ [][hist.ok' = hist.ok + 1 =>
          LET speech == drv'.total_vad >= denoiser.vad_threshold IN
            /\ denoiser'.speech_frames =
                 denoiser.speech_frames + (IF speech THEN 1 ELSE 0)
            /\ (drv'.res_ptr /\ denoiser.enable_vad_output) =>
                 (drv'.result.is_speech <=> speech)]_vars

\* a frame whose combined score equals the threshold was counted as speech
C9_Witness ==
  /\ drv.pc = "idle"
  /\ drv.ret = "SUCCESS"
  /\ hist.ok = 1
  /\ drv.total_vad = denoiser.vad_threshold
  /\ denoiser.speech_frames = 1
  /\ drv.res_ptr
  /\ denoiser.enable_vad_output
  /\ drv.result.is_speech

\* the int16 samples that the path taken by the call makes of the engine's
\* output for channel c: pcm_float_to_int16 on one channel (line 428),
\* interleave_stereo on two (lines 461-462)
Narrowed(c) ==
  IF denoiser.num_channels = 1
  THEN pcm_float_to_int16(build, hist.run[c].out, FRAME_SIZE)
  ELSE [k \in Idx |-> ClampToInt16(hist.run[c].out[k])]

CreateReturned ==
  /\ hist.config.present
  /\ drv.pc \notin {"nocontext", "create_channel", "cleanup_lock",
                    "cleanup_stop", "cleanup_join", "cleanup_release"}

\* C11 as stated: every configured channel count outside {1, 2}, 0 and 3
\* included, is rejected with the invalid-argument code.
C11_InvalidOutsideOneTwo ==
  (CreateReturned /\ hist.config.num_channels \notin {1, 2}) =>
    (hist.cause = "channels" /\ drv.ret = "ERROR_INVALID")

\* C11: denoiser_create returns the invalid-argument code for every
\* configured channel count above 2 and acquires nothing; a configured count
\* of 0 or below is not rejected for its channel count but selects one
\* channel; a context is created only with 1 or 2 channels.
C11_InvalidAboveTwo ==
  CreateReturned =>
    /\ hist.config.num_channels > 2 =>
         /\ hist.cause = "channels"
         /\ drv.ret = "ERROR_INVALID"
         /\ heap = NoHeap
         /\ hist.threads = 0
    /\ hist.config.num_channels <= 2 => hist.cause # "channels"
    /\ hist.config.num_channels <= 0 => denoiser.num_channels = 1
    /\ hist.cause = "none" =>
         /\ denoiser.num_channels \in {1, 2}
         /\ hist.threads = denoiser.num_channels

\* a configured count of 0 gave a one-channel context
C11_Witness ==
  /\ hist.config.present
  /\ hist.config.num_channels = 0
  /\ drv.pc = "idle"
  /\ drv.ret = "SUCCESS"
  /\ denoiser.num_channels = 1

\* C12: after denoiser_create returned an error, denoiser_destroy on that
\* context uses no worker, mutex, thread, engine state or buffer that was
\* never created or was already released.
C12_DestroyAfterFailureSafe ==
  hist.cause # "none" => (hist.misuse = {} /\ drv.pc # "crashed")

\* C13: when denoiser_create returns an error from any of its failure
\* points, every object it acquired in that call has been released and every
\* worker thread it started has been stopped and joined.
C13_FailureReleasesAll ==
  (drv.pc = "failed" /\ hist.cause \in FailurePoints) => Held = {}

\* denoiser_create got past the channel-count check with its configuration
ThresholdSet == CreateReturned /\ hist.cause \notin {"null_config", "channels"}

Allocations ==
  {"denoisers", "processing_buffers", "workers",
   "processing_buffer", "input_buffer", "output_buffer"}

InDestroy ==
  /\ hist.cause = "none"
  /\ drv.destroys = 0
  /\ drv.pc \in {"destroy_lock", "destroy_stop", "destroy_join", "destroy_free"}

\* C16: under fair scheduling denoiser_destroy, called on a created context
\* with no frame in flight, eventually returns, having set stop on every
\* worker, with every worker thread exited and joined and none left blocked
\* on its condition variable.
C16_DestroyReturns ==
  InDestroy ~>
    /\ drv.pc = "destroyed"
    /\ \A c \in Chan :
         c < denoiser.num_channels => (workers[c].stop /\ wpc[c] = "joined")

\* after two frames, a worker parked on its condition variable was woken by
\* denoiser_destroy and is about to see stop
C16_Witness ==
  /\ InDestroy
  /\ denoiser.num_channels = 2
  /\ hist.ok = MaxCalls
  /\ drv.pc = "destroy_join"
  /\ wpc[drv.i] = "reacquire"
  /\ workers[drv.i].stop

\* C17: once denoiser_destroy has returned on a created context, every
\* engine state, processing buffer, staging input buffer, staging output
\* buffer, mutex and condition variable of every channel, and the shared
\* model, has been released.
C17_DestroyReleasesAll ==
  (hist.cause = "none" /\ drv.pc = "destroyed" /\ drv.destroys = 1) =>
    Held = {}

\* C18: a second denoiser_destroy on the same context neither uses nor
\* releases again any thread, mutex, condition variable, buffer, engine state
\* or array that the first call joined, destroyed or freed, and does not
\* crash.
C18_SecondDestroySafe ==
  (hist.cause = "none" /\ drv.destroys >= 1) =>
    (hist.misuse = {} /\ drv.pc # "crashed")

\* C19: a worker thread exits only when idle: it never sees stop while
\* has_work is set, stop is never set on a worker that has a frame queued or
\* in progress, and every frame dispatched to it was completed before it
\* exits.
C19_StopOnlyWhenIdle ==
  /\ [](\A c \in Chan :
          workers[c].stop =>
            (~workers[c].has_work /\ hist.queued[c] = hist.done[c]))
  /\ [][\A c \in Chan :
          (wpc[c] # "exited" /\ wpc'[c] = "exited") =>
            /\ ~workers[c].has_work
            /\ hist.queued[c] = hist.done[c]
            /\ denoiser.num_channels = 2 => hist.done[c] = hist.ok]_vars

\* both workers of a two-channel context have exited after processing every
\* frame of the call budget
C19_Witness ==
  /\ denoiser.num_channels = 2
  /\ hist.ok = MaxCalls
  /\ \A c \in Chan : wpc[c] \in {"exited", "joined"} /\ hist.done[c] = MaxCalls

\* C20: denoiser_create starts no worker thread for a one-channel context
\* and two for a two-channel context, and denoiser_process on one channel
\* runs the engine on the caller's thread.
C20_MonoNoThread ==
  BetweenCalls =>
    /\ denoiser.num_channels = 1 =>
         /\ hist.threads = 0
         /\ \A c \in Chan : wpc[c] = "nothread"
         /\ \A c \in Chan : hist.queued[c] = 0
         /\ engine[0] = hist.ok
    /\ denoiser.num_channels = 2 => hist.threads = 2

\* C21: for every int16 sample and every count, pcm_int16_to_float followed
\* by pcm_float_to_int16 gives the samples back, in every build.
C21_RoundTrip ==
  "back" \in conv.ran =>
    /\ DOMAIN conv.back = DOMAIN conv.pcm
    /\ \A k \in DOMAIN conv.pcm : conv.back[k] = conv.pcm[k]

\* a round trip through the 8-wide loops and the scalar tail, with both
\* limits of int16 among the samples
C21_Witness ==
  /\ "back" \in conv.ran
  /\ build = "simd"
  /\ Batched(conv.count) > 0
  /\ conv.count > Batched(conv.count)
  /\ \E k \in DOMAIN conv.pcm :
       k < Batched(conv.count) /\ conv.pcm[k] = -32768
  /\ \E k \in DOMAIN conv.pcm :
       k >= Batched(conv.count) /\ conv.pcm[k] = 32767

\* out is v clamped to the int16 range and narrowed
Saturated(v, out) ==
  /\ out \in PCM_SCALE_FLOAT_MIN .. PCM_SCALE_FLOAT_MAX
  /\ v > PCM_SCALE_FLOAT_MAX * FloatUnit => out = PCM_SCALE_FLOAT_MAX
  /\ v < PCM_SCALE_FLOAT_MIN * FloatUnit => out = PCM_SCALE_FLOAT_MIN

\* C22: pcm_float_to_int16 and interleave_stereo give an int16 for every
\* value, 32767 for a value above 32767 and -32768 for a value below -32768.
C22_ClampsBeforeNarrowing ==
  /\ "to_int16" \in conv.ran =>
       \A k \in DOMAIN conv.floats : Saturated(conv.floats[k], conv.pcm_out[k])
  /\ "interleave" \in conv.ran =>
       \A k \in DOMAIN conv.floats :
         /\ Saturated(conv.floats[k], conv.stereo_out[2 * k])
         /\ Saturated(conv.right[k], conv.stereo_out[2 * k + 1])

\* both converters ran on values above and below the range, in the 8-wide
\* loop and in the scalar tail
C22_Witness ==
  /\ {"to_int16", "interleave"} \subseteq conv.ran
  /\ build = "simd"
  /\ \E k \in DOMAIN conv.floats :
       /\ k < Batched(conv.count)
       /\ conv.floats[k] > PCM_SCALE_FLOAT_MAX * FloatUnit
       /\ conv.pcm_out[k] = 32767
  /\ \E k \in DOMAIN conv.floats :
       /\ k >= Batched(conv.count)
       /\ conv.floats[k] < PCM_SCALE_FLOAT_MIN * FloatUnit
       /\ conv.pcm_out[k] = -32768
  /\ \E k \in DOMAIN conv.right :
       /\ conv.right[k] < PCM_SCALE_FLOAT_MIN * FloatUnit
       /\ conv.stereo_out[2 * k + 1] = -32768

\* C23: the converters of every build give, element by element, what the
\* scalar loops give, also for values that are not integers.
C23_VectorEqualsScalar ==
  /\ "to_float" \in conv.ran =>
       conv.float_out = pcm_int16_to_float("scalar", conv.pcm, conv.count)
  /\ "to_int16" \in conv.ran =>
       conv.pcm_out = pcm_float_to_int16("scalar", conv.floats, conv.count)

\* C24: after a two-channel call, channel c of the output frame holds what
\* a one-channel context writes for channel c's samples when its engine
\* behaves as worker c's engine did: the engine saw the same floats, and the
\* output is pcm_float_to_int16 of the engine's output.
C24_StereoAsMono ==
  (denoiser.num_channels = 2 /\ drv.pc = "idle" /\ drv.ret = "SUCCESS"
     /\ hist.ok > 0) =>
    \A c \in Chan :
      LET sub == [k \in Idx |-> drv.input_pcm[2 * k + c]]
      IN /\ hist.run[c].in = pcm_int16_to_float(build, sub, FRAME_SIZE)
         /\ [k \in Idx |-> drv.output_pcm[2 * k + c]] =
              pcm_float_to_int16(build, hist.run[c].out, FRAME_SIZE)

\* r is a / b to the nearest integer
Nearest(r, a, b) ==
  /\ 2 * (r * b - a) <= b
  /\ 2 * (a - r * b) <= b

\* C25: the text of get_denoiser_stats reports 0 for the average score, the
\* speech percentage and the average frame time of a context with no frame;
\* otherwise it reports sum/count, 100*speech_frames/count and total/count
\* at the printed precision; the call leaves the context as it was.
C25_StatsReport ==
  /\ [](stats_buffer.buffer # <<>> =>
          LET n == denoiser.frames_processed
              text == stats_buffer.buffer
          IN /\ text[1] = n
             /\ n = 0 => (text[2] = 0 /\ text[3] = 0 /\ text[7] = 0)
             /\ n > 0 =>
                  /\ Nearest(text[2], 10 * 100 * denoiser.speech_frames, n)
                  /\ Nearest(text[3], 1000 * denoiser.total_vad_score,
                             FloatUnit * n)
                  /\ Nearest(text[7], 1000 * denoiser.total_processing_time,
                             n))
  /\ [][stats_buffer' # stats_buffer => denoiser' = denoiser]_vars

\* the statistics of a context with frames of which some but not all are
\* speech have been read
C25_Witness ==
  /\ stats_buffer.ret = "stats_buffer"
  /\ denoiser.frames_processed = MaxStatFrames
  /\ denoiser.speech_frames > 0
  /\ denoiser.speech_frames < denoiser.frames_processed
  /\ stats_buffer.buffer[3] > 0

\* C26: once the resampler or the denoiser has failed on a frame,
\* audx_process_frame processes no further frame and returns a code other
\* than AUDX_SUCCESS.
C26_FailureReported ==
  rt.failed # "none" =>
    /\ rt.pc \in {"stats", "cleanup", "returned"}
    /\ rt.pc = "returned" => rt.ret # "SUCCESS"

\* the calls of one frame that went through resampling
ResampledFrame(up, down) ==
  <<[op |-> "resample", h |-> up], [op |-> "denoise", h |-> NullResampler],
    [op |-> "resample", h |-> down]>>

\* s is a beginning of t
Prefix(s, t) == Len(s) <= Len(t) /\ \A k \in 1 .. Len(s) : s[k] = t[k]

\* C27: a resampler exists and is called only when the validated input rate
\* is not 48000; then every frame goes to the upsampler, the denoiser and
\* the downsampler in this order, and all frames use the two instances that
\* were created before the first frame; at 48000 a frame goes to the
\* denoiser only.  The same holds for audx_create and audx_process.
C27_ResampleOnlyWhenNeeded ==
  /\ LET needed ==
           /\ is_valid_sample_rate(rt.raw_rate)
           /\ rt.raw_rate # AUDX_DEFAULT_SAMPLE_RATE
         up == [id |-> 1, from |-> rt.raw_rate, to |-> 48000]
         down == [id |-> 2, from |-> 48000, to |-> rt.raw_rate]
     IN /\ rt.needs_resampling = needed
        /\ ~needed =>
             /\ rt.created = {} /\ rt.up_used = {} /\ rt.down_used = {}
             /\ Prefix(rt.log, <<[op |-> "denoise", h |-> NullResampler]>>)
             /\ rt.pc = "write" => Len(rt.log) = 1
        /\ needed =>
             /\ rt.created \subseteq {up, down}
             /\ rt.up_used \subseteq {up} /\ rt.down_used \subseteq {down}
             /\ rt.pc \in {"read", "upsample", "denoise", "downsample",
                           "write"} => rt.created = {up, down}
             /\ Prefix(rt.log, ResampledFrame(up, down))
             /\ rt.pc = "write" => rt.log = ResampledFrame(up, down)
  /\ LET needed == audx.in_rate # FRAME_RATE
         up == [id |-> 1, from |-> audx.in_rate, to |-> 48000]
         down == [id |-> 2, from |-> 48000, to |-> audx.in_rate]
     IN audx.pc # "nostate" =>
        /\ audx.need_resample = needed
        /\ ~needed =>
             /\ audx.created = {} /\ audx.up_used = {} /\ audx.down_used = {}
             /\ Prefix(audx.log, <<[op |-> "denoise", h |-> NullResampler]>>)
        /\ needed =>
             /\ audx.created \subseteq {up, down}
             /\ audx.up_used \subseteq {up} /\ audx.down_used \subseteq {down}
             /\ audx.pc = "ready" => audx.created = {up, down}
             /\ Prefix(audx.log, ResampledFrame(up, down))
             /\ audx.ret = "vad_prob" => audx.log = ResampledFrame(up, down)

\* a second frame of a 16 kHz file has gone through both resamplers, and
\* so has the first
C27_Witness ==
  /\ rt.pc = "write"
  /\ rt.raw_rate = 16000
  /\ rt.frame_count = 1
  /\ Len(rt.log) = 3
  /\ rt.up_used # {} /\ rt.down_used # {}

\* C28: whenever the pending step of the driver or of worker thread c reads
\* or writes worker c's input_buffer, output_buffer, vad_result or has_work,
\* that thread holds worker c's mutex; so the worker writes the result and
\* the score only while it holds the mutex.
C28_AccessUnderMutex ==
  \A c \in Chan :
    /\ DriverTouches(c) \cup DriverTouchesFlag(c) # {} =>
         workers[c].mutex = "driver"
    /\ WorkerTouches(c) \cup WorkerTouchesFlag(c) # {} =>
         workers[c].mutex = "worker"

\* C29: worker thread c holds its mutex only from the lock of line 26 to the
\* unlock after the copy and from the lock of line 44 to the unlock after the
\* publication; while it runs the inference call it does not hold it.
C29_MutexFreeDuringInference ==
  \A c \in Chan :
    /\ workers[c].mutex = "worker" => wpc[c] \in {"check", "publish"}
    /\ wpc[c] = "infer" => workers[c].mutex # "worker"

\* worker 1 runs inference while the driver, having queued both workers,
\* holds the mutex of worker 1 in the join loop and worker 0 has published
C29_Witness ==
  /\ wpc[1] = "infer"
  /\ drv.pc = "join_check"
  /\ drv.i = 1
  /\ workers[1].mutex = "driver"
  /\ ~workers[0].has_work

\* C30: while the driver is in the join loop of a two-channel call, both
\* workers have been queued for this call, whichever worker it waits on.
C30_QueueBothBeforeWaiting ==
  (denoiser.num_channels = 2
   /\ drv.pc \in {"join_lock", "join_check", "join_wait", "join_reacquire"}) =>
    \A c \in Chan : hist.queued[c] = hist.ok + 1

\* both workers run inference at once while the driver waits on worker 0
C30_Witness ==
  /\ wpc[0] = "infer"
  /\ wpc[1] = "infer"
  /\ drv.pc = "join_wait"
  /\ drv.i = 0

\* C31: as long as worker thread c has been started and not joined, the
\* workers array, its engine state, its two staging buffers, its mutex and
\* its two condition variables have not been released, in denoiser_destroy
\* and in the cleanup of a failed denoiser_create alike.
C31_JoinBeforeRelease ==
  \A c \in Chan :
    wpc[c] \notin {"nothread", "joined"} =>
      /\ heap.workers # "released"
      /\ \A r \in {"state", "input_buffer", "output_buffer", "mutex",
                    "cond", "work_done"} : heap[r][c] # "released"

\* denoiser_destroy has joined worker 0 and destroyed its mutex while worker
\* 1 has not been stopped yet
C31_Witness ==
  /\ drv.pc = "destroy_lock"
  /\ drv.i = 1
  /\ wpc[0] = "joined"
  /\ heap.mutex[0] = "released"
  /\ wpc[1] \notin {"nothread", "joined", "exited"}

\* C32: audx_process_frame never calls on_progress through a NULL pointer,
\* and a given callback has been called once for every 100th frame written
\* and once for a short final frame written.
C32_ProgressOptional ==
  /\ ~rt.null_call
  /\ rt.pc # "crashed"
  /\ rt.on_progress =>
       LET short_done ==
             /\ rt.short
             /\ rt.failed = "none"
             /\ rt.pc \in {"read", "stats", "cleanup", "returned"}
       IN rt.progress =
            (rt.frame_count \div 100)
            + (IF short_done /\ rt.frame_count % 100 # 0 THEN 1 ELSE 0)

\* C33: with stats_enabled false audx_process_frame writes no field of the
\* caller's AudxStats at any point of the call; when a call with
\* stats_enabled true returns AUDX_SUCCESS it has written the file fields
\* and the fields copied from the denoiser's statistics.
C33_StatsOnlyWhenEnabled ==
  /\ ~rt.stats_enabled => (~rt.ret_stats.header /\ ~rt.ret_stats.stats)
  /\ (rt.pc = "returned" /\ rt.ret = "SUCCESS" /\ rt.stats_enabled) =>
       (rt.ret_stats.header /\ rt.ret_stats.stats)

\* a call with statistics disabled wrote frames, returned AUDX_SUCCESS and
\* left the caller's AudxStats alone
C33_Witness ==
  /\ rt.pc = "returned"
  /\ rt.ret = "SUCCESS"
  /\ ~rt.stats_enabled
  /\ rt.written > 0
  /\ ~rt.ret_stats.header /\ ~rt.ret_stats.stats

\* C34: when audx_process_frame has returned, no file it opened is open, no
\* buffer it allocated is allocated, its denoiser, if created, has been
\* destroyed and the resamplers it destroyed are those it created; after a
\* NULL argument, an input file that cannot be opened or an output file that
\* cannot be created the code returned is AUDX_ERROR_INVALID.
C34_InvalidAndReleased ==
  rt.pc = "returned" =>
    /\ \A r \in {"input_file", "output_file", "input_buffer", "output_buffer",
                  "resampled_input", "resampled_output", "denoiser"} :
         rt[r] # "live"
    /\ rt.destroyed = rt.created
    /\ rt.cause \notin {"args", "input_file", "denoiser"} =>
         (rt.denoiser = "released" /\ rt.input_file = "released")
    /\ rt.cause \in {"args", "input_file", "output_file"} =>
         rt.ret = "ERROR_INVALID"

\* the output file could not be created: the call returned
\* AUDX_ERROR_INVALID with the input file closed and the denoiser destroyed
C34_Witness ==
  /\ rt.pc = "returned"
  /\ rt.cause = "output_file"
  /\ rt.ret = "ERROR_INVALID"
  /\ rt.input_file = "released"
  /\ rt.denoiser = "released"
  /\ rt.output_file = "none"

\* C35: a context created from a config with statistics disabled has
\* frames_processed 0 however many denoiser_process calls succeeded on it.
C35_DisabledCountsNothing ==
  (hist.config.present /\ ~hist.config.stats_enabled) =>
    denoiser.frames_processed = 0

\* C36: denoiser_create on a zero-initialised config is not rejected for its
\* configuration, succeeds when no allocation and no thread creation fails,
\* and the context it returns has num_channels 1, vad_threshold 0.5,
\* min_vad_score 1.0, max_vad_score 0.0 and frames_processed 0.
C36_ZeroConfig ==
  (CreateReturned /\ hist.config = [NoConfig EXCEPT !.present = TRUE]) =>
    /\ hist.cause \notin {"null_config", "channels", "model"}
    /\ hist.cause = "none" => drv.ret = "SUCCESS"
    /\ drv.pc = "idle" =>
         /\ denoiser.num_channels = 1
         /\ denoiser.vad_threshold = FloatHalf
         /\ denoiser.min_vad_score = FloatOne
         /\ denoiser.max_vad_score = 0
         /\ denoiser.frames_processed = 0

\* denoiser_create has succeeded on a zero-initialised config
C36_Witness ==
  /\ drv.pc = "idle"
  /\ drv.ret = "SUCCESS"
  /\ hist.config = [NoConfig EXCEPT !.present = TRUE]
  /\ denoiser.num_channels = 1
  /\ denoiser.vad_threshold = FloatHalf

\* C37: while no step of audx_process_frame has failed, the samples written
\* are the samples read, less those of the frame in progress; the frame in
\* progress is the samples read followed by zeros up to a full frame; and
\* when the loop has ended every sample of the input file was read.
C37_WritesWhatItRead ==
  (rt.failed = "none" /\ rt.pc \notin {"nocall", "setup"}
   /\ rt.cause = "none") =>
    /\ rt.pc \in {"upsample", "denoise", "downsample", "write"} =>
         /\ rt.samples_read = rt.samples_written + rt.read
         /\ rt.read > 0
         /\ rt.read + rt.padded = rt.frame_samples
    /\ rt.pc \in {"read", "crashed", "stats", "cleanup", "returned"} =>
         rt.samples_written = rt.samples_read
    /\ rt.pc \in {"stats", "cleanup", "returned"} =>
         /\ rt.samples_read = rt.file_samples
         /\ rt.frames_left = 0

\* a 16 kHz file of one full frame and one sample has been processed: 161
\* samples read, 161 written, the last frame padded with 159 zeros
C37_Witness ==
  /\ rt.pc = "returned"
  /\ rt.failed = "none"
  /\ rt.raw_rate = 16000
  /\ rt.samples_read = 161
  /\ rt.samples_written = 161
  /\ rt.padded = 159

\* C38: whenever audx_process_with_resample has handed downsampler_buf to
\* the denoiser as its output, the floats the denoiser wrote fit into the
\* length downsampler_buf was allocated with.
C38_DenoiserOutputFits ==
  audx.denoise_out = "downsampler_buf" =>
    audx.denoise_written <= audx.downsampler_buf_len

\* C39: in audx_process_int the floats written to tmp_out and the floats
\* pcm_float_to_int16 reads from it are at most the elements of tmp_out.
C39_ScratchArraysFit ==
  audx.entry = "audx_process_int" => audx.tmp_out_used <= audx.tmp_out_len

\* C40: when audx_create has returned NULL, nothing it acquired in that call
\* is still held: not the arena, not a resampler, not the denoiser.
C40_CreateAllOrNothing ==
  audx.pc = "null" => \A step \in DOMAIN audx.res : audx.res[step] # "live"

====
